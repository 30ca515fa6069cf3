-------------------------- MODULE ServiceBusListener --------------------------
(***************************************************************************)
(* order-svc's Service Bus pump driving OrderService: every pod peek-locks *)
(* batches of the subscription, hands the messages one by one to           *)
(* OrderService, completes those that return and dead-letters those that   *)
(* throw.                                                                  *)
(*                                                                         *)
(* The broker is external: a lock ends when it is settled or expires; a    *)
(* settlement without the lock is refused; a message whose lock expires at *)
(* its last delivery is dead-lettered by the broker.                       *)
(***************************************************************************)
EXTENDS OrderService, FiniteSets

CONSTANTS BusMessage,    \* messages of the subscription, copies counted apart
          Carries,       \* Carries[b] is the request pump makes of message b
          BatchSize,     \* receiveMessages(10, ...)
          MaxDelivery,   \* the subscription's maximum delivery count
          MaxFaults      \* bound: failed calls and settlements, early lock ends, deaths

ASSUME CarriesType == Carries \in [BusMessage -> Request]
ASSUME NoneIsNoMessage == None \notin BusMessage
ASSUME PumpPerPod == \A v, w \in Worker : Home[v] = Home[w] => v = w
ASSUME LimitsType == BatchSize \in Nat /\ MaxDelivery \in Nat /\ MaxFaults \in Nat

VARIABLES state,      \* state of each message in the broker
          holder,     \* pump that holds its lock
          delivered,  \* its delivery count
          batch,      \* messages a pump has received and not begun
          cur,        \* message a pump is working on
          failed,     \* history: messages a call about which met a failing query
          faults      \* failures so far

busVars == <<state, holder, delivered>>
bvars == <<vars, state, holder, delivered, batch, cur, failed, faults>>

BInit == /\ Init
         /\ state = [b \in BusMessage |-> "unsent"]
         /\ holder = [b \in BusMessage |-> None]
         /\ delivered = [b \in BusMessage |-> 0]
         /\ batch = [w \in Worker |-> {}]
         /\ cur = [w \in Worker |-> None]
         /\ failed = {}
         /\ faults = 0

Fault == faults < MaxFaults /\ faults' = faults + 1

(* shop-svc sends a checkout. *)
Send(b) == /\ state[b] = "unsent"
           /\ state' = [state EXCEPT ![b] = "active"]
           /\ UNCHANGED <<vars, holder, delivered, batch, cur, failed, faults>>

Receive(w) ==
  /\ batch[w] = {} /\ cur[w] = None
  /\ \E got \in SUBSET {b \in BusMessage : state[b] = "active"} :
       /\ Cardinality(got) \in 1..BatchSize
       /\ state' = [b \in BusMessage |-> IF b \in got THEN "locked" ELSE state[b]]
       /\ holder' = [b \in BusMessage |-> IF b \in got THEN w ELSE holder[b]]
       /\ delivered' = [b \in BusMessage |-> IF b \in got THEN delivered[b] + 1 ELSE delivered[b]]
       /\ batch' = [batch EXCEPT ![w] = got]
  /\ UNCHANGED <<vars, cur, failed, faults>>

BeginTwiceBug(w) ==   \* leaves a redelivered message alone, unsettled
  /\ cur[w] = None
  /\ \E b \in batch[w] : /\ delivered[b] = 1
                         /\ Start(w, Carries[b])
                         /\ cur' = [cur EXCEPT ![w] = b]
                         /\ batch' = [batch EXCEPT ![w] = @ \ {b}]
  /\ UNCHANGED <<busVars, failed, faults>>

BeginKeepBug(w) ==   \* leaves the message in the batch
  /\ cur[w] = None
  /\ \E b \in batch[w] : Start(w, Carries[b]) /\ cur' = [cur EXCEPT ![w] = b]
  /\ UNCHANGED <<busVars, batch, failed, faults>>

BeginEarlyBug(w) ==   \* completes before the call
  /\ cur[w] = None
  /\ \E b \in batch[w] : /\ Start(w, Carries[b])
                         /\ state' = [state EXCEPT ![b] = "completed"]
                         /\ cur' = [cur EXCEPT ![w] = b]
                         /\ batch' = [batch EXCEPT ![w] = @ \ {b}]
  /\ UNCHANGED <<holder, delivered, failed, faults>>

(* The next message of the batch, its lock perhaps gone by now. *)
Begin(w) ==
  /\ cur[w] = None
  /\ \E b \in batch[w] : /\ Start(w, Carries[b])
                         /\ cur' = [cur EXCEPT ![w] = b]
                         /\ batch' = [batch EXCEPT ![w] = @ \ {b}]
  /\ UNCHANGED <<busVars, failed, faults>>

HoldsLock(w) == state[cur[w]] = "locked" /\ holder[cur[w]] = w

Settle(w, s) == /\ state' = [state EXCEPT ![cur[w]] = s]
                /\ holder' = [holder EXCEPT ![cur[w]] = None]
                /\ cur' = [cur EXCEPT ![w] = None]
                /\ Return(w)
                /\ UNCHANGED <<delivered, failed>>

Complete(w) == /\ cur[w] # None
               /\ pc[w] = "reply" /\ HoldsLock(w)
               /\ Settle(w, "completed")
               /\ UNCHANGED <<batch, faults>>

DeadLetterBatchBug(w) ==   \* one failure takes the rest of the batch with it
  /\ cur[w] # None /\ HoldsLock(w) /\ pc[w] = "fail"
  /\ state' = [b \in BusMessage |-> IF b \in batch[w] \cup {cur[w]} THEN "dead" ELSE state[b]]
  /\ holder' = [holder EXCEPT ![cur[w]] = None]
  /\ cur' = [cur EXCEPT ![w] = None]
  /\ batch' = [batch EXCEPT ![w] = {}]
  /\ Return(w)
  /\ UNCHANGED <<delivered, failed, faults>>

(* The catch of the message: the call threw, or completeMessage did. *)
DeadLetter(w) == /\ cur[w] # None
                 /\ HoldsLock(w)
                 /\ \/ pc[w] = "fail" /\ UNCHANGED faults
                    \/ pc[w] = "reply" /\ Fault
                 /\ Settle(w, "dead")
                 /\ UNCHANGED batch

GiveUpBatchBug(w) ==   \* the rest of the batch is dead-lettered as well
  /\ cur[w] # None /\ pc[w] \in {"reply", "fail"}
  /\ IF HoldsLock(w) THEN Fault ELSE UNCHANGED faults
  /\ state' = [b \in BusMessage |-> IF b \in batch[w] THEN "dead" ELSE state[b]]
  /\ cur' = [cur EXCEPT ![w] = None]
  /\ batch' = [batch EXCEPT ![w] = {}]
  /\ Return(w)
  /\ UNCHANGED <<holder, delivered, failed>>

(* The catch of the batch: deadLetterMessage threw as well, for want of the    *)
(* lock (which completeMessage may have given up although it threw), or with   *)
(* the message moved all the same.  The rest of the batch is left to its locks.*)
GiveUpBatch(w) == /\ cur[w] # None
                  /\ pc[w] \in {"reply", "fail"}
                  /\ IF HoldsLock(w) THEN Fault ELSE UNCHANGED faults
                  /\ \/ UNCHANGED <<state, holder>>
                     \/ /\ HoldsLock(w)
                        /\ \/ pc[w] = "reply" /\ state' = [state EXCEPT ![cur[w]] = "completed"]
                           \/ state' = [state EXCEPT ![cur[w]] = "dead"]
                        /\ holder' = [holder EXCEPT ![cur[w]] = None]
                  /\ cur' = [cur EXCEPT ![w] = None]
                  /\ batch' = [batch EXCEPT ![w] = {}]
                  /\ Return(w)
                  /\ UNCHANGED <<delivered, failed>>

(* The lock of an abandoned message expires; that of one still in a pump's     *)
(* hands does when the pump is too slow.                                       *)
LockExpires(b) ==
  /\ state[b] = "locked"
  /\ IF \E w \in Worker : holder[b] = w /\ b \in batch[w] \cup {cur[w]}
     THEN Fault ELSE UNCHANGED faults
  /\ state' = [state EXCEPT ![b] = IF delivered[b] >= MaxDelivery THEN "dead" ELSE "active"]
  /\ holder' = [holder EXCEPT ![b] = None]
  /\ UNCHANGED <<vars, delivered, batch, cur, failed>>

Process(w) == Work(w) /\ UNCHANGED <<busVars, batch, cur, failed, faults>>

(* A query of the call fails. *)
CallFails(w) == /\ cur[w] # None
                /\ Abort(w) /\ Fault
                /\ failed' = failed \cup {cur[w]}
                /\ UNCHANGED <<busVars, batch, cur>>

PodDies(w) == /\ Fault
              /\ Restart(Home[w])
              /\ batch' = [batch EXCEPT ![w] = {}]
              /\ cur' = [cur EXCEPT ![w] = None]
              /\ UNCHANGED <<busVars, failed>>

BNext == \/ \E b \in BusMessage : Send(b) \/ LockExpires(b)
         \/ \E w \in Worker : \/ Receive(w) \/ Begin(w) \/ Process(w) \/ Complete(w)
                              \/ DeadLetter(w) \/ GiveUpBatch(w) \/ CallFails(w) \/ PodDies(w)

BSpec == BInit /\ [][BNext]_bvars

(* The pump loops run; the broker ends the locks nobody renews.  Process is     *)
(* strongly fair: a transaction that waits in an index is woken when the holder *)
(* ends, so a call that finds it free again and again is not passed over.       *)
BFairSpec == /\ BSpec
             /\ \A w \in Worker : /\ SF_bvars(Process(w))
                                  /\ WF_bvars(Receive(w)) /\ WF_bvars(Begin(w))
                                  /\ WF_bvars(Complete(w) \/ DeadLetter(w) \/ GiveUpBatch(w))
             /\ \A b \in BusMessage : WF_bvars(LockExpires(b))

-------------------------------------------------------------------------------
BTypeOK == /\ state \in [BusMessage -> {"unsent", "active", "locked", "completed", "dead"}]
           /\ holder \in [BusMessage -> Worker \cup {None}]
           /\ delivered \in [BusMessage -> Nat]
           /\ batch \in [Worker -> SUBSET BusMessage]
           /\ cur \in [Worker -> BusMessage \cup {None}]
           /\ \A w \in Worker : cur[w] \notin batch[w]
           /\ failed \subseteq BusMessage
           /\ faults \in 0..MaxFaults

HasOrder(b) == \E o \in orders : Corr[o.msg] = Corr[Carries[b].msg]

(* A message leaves the subscription as completed only when its order is       *)
(* committed, whatever locks expired or pods died between the call and the     *)
(* settlement.                                                                 *)
CompletedMeansOrdered == \A b \in BusMessage : state[b] = "completed" => HasOrder(b)

(* As long as nothing has failed, a well-formed checkout is never dead-lettered *)
(* without an order: a copy that loses the race for the correlation id is       *)
(* dead-lettered too (its call threw), but then the order of the other exists.  *)
NoCheckoutLostUnfailed ==
  \A b \in BusMessage :
    state[b] = "dead" /\ Carries[b].msg \in Balanced /\ faults = 0 => HasOrder(b)

(* After failures as well, a well-formed checkout is dead-lettered without an   *)
(* order only if a query failed in a call about itself (once is enough, line    *)
(* 47), or if it has been lost by a pump so often that the broker gives up:     *)
(* never for what befell another message of its batch or another pump.          *)
DeadLetterHasCause ==
  \A b \in BusMessage :
    state[b] = "dead" /\ Carries[b].msg \in Balanced /\ ~HasOrder(b)
      => b \in failed \/ delivered[b] >= MaxDelivery

(* Every message sent is completed or dead-lettered in the end.                 *)
EveryMessageSettles ==
  \A b \in BusMessage : state[b] # "unsent" ~> state[b] \in {"completed", "dead"}
===============================================================================
