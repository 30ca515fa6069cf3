------------------------ MODULE KafkaCheckoutListener ------------------------
(***************************************************************************)
(* order-svc's Kafka listener driving OrderService: the pods of the        *)
(* consumer group "order-svc" read the partitions of checkout-events, one  *)
(* message at a time, and kafkajs stores the group's offsets.              *)
(*                                                                         *)
(* The broker and kafkajs are external: a partition belongs to one pod of  *)
(* the group; a rebalance may take it from a pod that is still inside      *)
(* eachMessage, whose later commit is then refused; a partition without a  *)
(* stored offset is read from its end (fromBeginning: false).  A pod joins *)
(* the group only if its consumer connected and subscribed when the pod    *)
(* started; nothing tries again later, nor after kafkajs has given up.     *)
(***************************************************************************)
EXTENDS OrderService, Sequences

CONSTANTS Partition,
          PartitionOf,   \* the partition the producer picks for a key
          Junk,          \* a record with no value, or whose value is not JSON
          NoOffset,      \* the group has stored no offset
          MaxLog,        \* bound: records per partition
          MaxFaults      \* bound: failed calls, pod deaths and rebalances

ASSUME PartitionType == PartitionOf \in [Key -> Partition]
ASSUME OnePodOneCall == \A v, w \in Worker : Home[v] = Home[w] => v = w
ASSUME BoundsType == MaxLog \in Nat /\ MaxFaults \in Nat
ASSUME OffsetType == NoOffset \notin Nat
ASSUME JunkType == Junk \notin Request
ASSUME NoPod == None \notin Worker

VARIABLES subscribed, \* pods whose consumer connected and subscribed, and still runs
          log,      \* records of each partition of checkout-events
          stored,   \* offset stored for the group, per partition
          pos,      \* offset of the next record, in the owner's session
          base,     \* where the sessions since the last reset to the end began
          owner,    \* pod the partition is assigned to
          cur,      \* record a pod's eachMessage is working on: [part, off]
          faults    \* failures so far

logVars == <<log, stored, pos, base, owner>>
kvars == <<vars, subscribed, log, stored, pos, base, owner, cur, faults>>

NoRecord == None

KInit == /\ Init
         /\ subscribed \in SUBSET Worker
         /\ log = [p \in Partition |-> <<>>]
         /\ stored = [p \in Partition |-> NoOffset]
         /\ pos = [p \in Partition |-> 0]
         /\ base = [p \in Partition |-> 0]
         /\ owner = [p \in Partition |-> None]
         /\ cur = [w \in Worker |-> NoRecord]
         /\ faults = 0

Fault == faults < MaxFaults /\ faults' = faults + 1

(* shop-svc appends a checkout; its producer may append it twice by a retry.  *)
(* Any other writer may append junk.                                          *)
Produce(p, e) == /\ Len(log[p]) < MaxLog
                 /\ e # Junk => p = PartitionOf[e.key]
                 /\ log' = [log EXCEPT ![p] = Append(@, e)]
                 /\ UNCHANGED <<vars, subscribed, stored, pos, base, owner, cur, faults>>

(* A pod takes part in a rebalance between two records only: kafkajs joins the *)
(* group from its fetch loop, which a pod without a consumer does not have.    *)
AssignBug(w, p) == /\ w \in subscribed /\ cur[w] = NoRecord
                   /\ owner[p] = None                        \* no reset policy
                   /\ owner' = [owner EXCEPT ![p] = w]
                   /\ pos' = [pos EXCEPT ![p] = stored[p]]
                   /\ UNCHANGED <<vars, subscribed, log, stored, base, cur, faults>>

AssignEndBug(w, p) == /\ w \in subscribed       \* every session begins at the end
                      /\ cur[w] = NoRecord
                      /\ owner[p] = None
                      /\ owner' = [owner EXCEPT ![p] = w]
                      /\ pos' = [pos EXCEPT ![p] = Len(log[p])]
                      /\ base' = [base EXCEPT ![p] = Len(log[p])]
                      /\ UNCHANGED <<vars, subscribed, log, stored, cur, faults>>

Assign(w, p) == /\ w \in subscribed
                /\ cur[w] = NoRecord
                /\ owner[p] # w
                /\ IF owner[p] = None THEN UNCHANGED faults ELSE Fault
                /\ owner' = [owner EXCEPT ![p] = w]
                /\ LET from == IF stored[p] = NoOffset THEN Len(log[p]) ELSE stored[p]
                   IN /\ pos' = [pos EXCEPT ![p] = from]
                      /\ base' = IF stored[p] = NoOffset THEN [base EXCEPT ![p] = from] ELSE base
                /\ UNCHANGED <<vars, subscribed, log, stored, cur>>

DeliverAheadBug(w, p) ==   \* eachMessage does not await the call
  /\ owner[p] = w
  /\ cur[w] = NoRecord
  /\ pos[p] < Len(log[p])
  /\ pos' = [pos EXCEPT ![p] = @ + 1]
  /\ LET e == log[p][pos[p] + 1]
     IN IF e = Junk THEN UNCHANGED <<vars, cur>>
                    ELSE /\ Start(w, e)
                         /\ cur' = [cur EXCEPT ![w] = [part |-> p, off |-> pos[p]]]
  /\ UNCHANGED <<subscribed, log, stored, base, owner, faults>>

(* eachMessage: junk is logged and skipped, a checkout goes to OrderService.  *)
Deliver(w, p) ==
  /\ owner[p] = w
  /\ cur[w] = NoRecord
  /\ pos[p] < Len(log[p])
  /\ LET e == log[p][pos[p] + 1]
     IN IF e = Junk THEN /\ pos' = [pos EXCEPT ![p] = @ + 1]
                         /\ UNCHANGED <<vars, cur>>
                    ELSE /\ Start(w, e)
                         /\ cur' = [cur EXCEPT ![w] = [part |-> p, off |-> pos[p]]]
                         /\ UNCHANGED pos
  /\ UNCHANGED <<subscribed, log, stored, base, owner, faults>>

(* The call returned.  The offset is resolved if the partition is still this  *)
(* pod's; after an exception it is not, and the record is fetched again.      *)
FinishSwallowBug(w) ==  \* the error is not rethrown
  /\ cur[w] # NoRecord /\ Return(w)
  /\ cur' = [cur EXCEPT ![w] = NoRecord]
  /\ pos' = IF owner[cur[w].part] = w THEN [pos EXCEPT ![cur[w].part] = cur[w].off + 1] ELSE pos
  /\ UNCHANGED <<subscribed, log, stored, base, owner, faults>>

Finish(w) ==
  /\ cur[w] # NoRecord
  /\ Return(w)
  /\ cur' = [cur EXCEPT ![w] = NoRecord]
  /\ IF pc[w] = "reply" /\ owner[cur[w].part] = w
     THEN pos' = [pos EXCEPT ![cur[w].part] = cur[w].off + 1]
     ELSE UNCHANGED pos
  /\ UNCHANGED <<subscribed, log, stored, base, owner, faults>>

(* Auto-commit: kafkajs stores the resolved offset of a partition it owns.    *)
StoreOffset(w, p) == /\ owner[p] = w
                     /\ pos[p] > base[p] \/ stored[p] # NoOffset
                     /\ stored[p] # pos[p]
                     /\ stored' = [stored EXCEPT ![p] = pos[p]]
                     /\ UNCHANGED <<vars, subscribed, log, pos, base, owner, cur, faults>>

Process(w) == Work(w) /\ UNCHANGED <<subscribed, logVars, cur, faults>>

(* A query fails. *)
CallFails(w) == Abort(w) /\ Fault /\ UNCHANGED <<subscribed, logVars, cur>>

LeaveGroup(w) == /\ Fault
                 /\ cur' = [cur EXCEPT ![w] = NoRecord]
                 /\ owner' = [p \in Partition |-> IF owner[p] = w THEN None ELSE owner[p]]
                 /\ UNCHANGED <<log, stored, pos, base>>

(* The pod dies and another one starts, whose consumer connects or does not. *)
PodDies(w) == /\ LeaveGroup(w)
              /\ Restart(Home[w])
              /\ subscribed' \in {subscribed \cup {w}, subscribed \ {w}}

(* kafkajs meets an error it does not retry and ends the run that nobody awaits. *)
ConsumerStops(w) == /\ w \in subscribed /\ cur[w] = NoRecord
                    /\ LeaveGroup(w)
                    /\ subscribed' = subscribed \ {w}
                    /\ UNCHANGED vars

Consume(w) == \/ Process(w) \/ Finish(w)
              \/ \E p \in Partition : Deliver(w, p)

KNext == \/ \E p \in Partition, e \in Request \cup {Junk} : Produce(p, e)
         \/ \E w \in Worker : \/ Consume(w) \/ CallFails(w) \/ PodDies(w) \/ ConsumerStops(w)
                              \/ \E p \in Partition : Assign(w, p) \/ StoreOffset(w, p)

KSpec == KInit /\ [][KNext]_kvars

(* The consumer loops run, and the group assigns every partition to some pod   *)
(* as long as one has joined it.  A waiting INSERT is woken when its holder    *)
(* ends.                                                                       *)
KFairSpec == /\ KSpec
             /\ \A w \in Worker : SF_kvars(Process(w)) /\ WF_kvars(Finish(w))
             /\ \A p \in Partition :
                  /\ SF_kvars(\E w \in Worker : Deliver(w, p))
                  /\ WF_kvars(owner[p] = None /\ \E w \in Worker : Assign(w, p))

-------------------------------------------------------------------------------
KTypeOK == /\ subscribed \subseteq Worker
           /\ log \in [Partition -> Seq(Request \cup {Junk})]
           /\ stored \in [Partition -> Nat \cup {NoOffset}]
           /\ pos \in [Partition -> Nat]
           /\ base \in [Partition -> Nat]
           /\ owner \in [Partition -> Worker \cup {None}]
           /\ cur \in [Worker -> [part : Partition, off : Nat] \cup {NoRecord}]
           /\ faults \in 0..MaxFaults

Ordered(e) == e = Junk \/ \E o \in orders : Corr[o.msg] = Corr[e.msg]

(* The group's offset never runs ahead of the database: every checkout below  *)
(* the stored offset or the read position, back to where the sessions began,  *)
(* has its order, whatever pods died or lost the partition in between.  In    *)
(* particular a message that always fails blocks its partition (lines 69-72). *)
OffsetsFollowOrders ==
  \A p \in Partition : \A n \in base[p] + 1 .. Len(log[p]) :
    n <= pos[p] \/ (stored[p] # NoOffset /\ n <= stored[p]) => Ordered(log[p][n])

(* Checkouts of a partition become orders in the order of the log, although   *)
(* two pods may work on it at once: whichever record a pod is at, also one    *)
(* that has lost the partition in the middle of a message, the checkouts      *)
(* before it, back to where the sessions began, have their orders.            *)
OrdersFollowTheLog ==
  \A w \in Worker : cur[w] # NoRecord =>
    \A n \in base[cur[w].part] + 1 .. cur[w].off : Ordered(log[cur[w].part][n])

(* Every checkout appended after the group has stored an offset becomes an    *)
(* order, provided no message of its partition fails for good and some pod    *)
(* has a consumer: a consumer that failed to connect, or stopped, is back     *)
(* only with the next pod (lines 36-45).                                      *)
EveryCheckoutOrdered ==
  \A p \in Partition : \A n \in 1..MaxLog :
    (/\ n <= Len(log[p]) /\ stored[p] # NoOffset /\ n > stored[p]
     /\ \A i \in 1..n : log[p][i] # Junk => log[p][i].msg \in Balanced)
      ~> (subscribed = {} \/ (n <= Len(log[p]) /\ Ordered(log[p][n])))
==============================================================================
