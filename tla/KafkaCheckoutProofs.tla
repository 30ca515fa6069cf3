-------------------------- MODULE KafkaCheckoutProofs --------------------------
(***************************************************************************)
(* Proofs about the Kafka checkout listener for any number of pods,        *)
(* partitions and records.  The listener only makes OrderService's steps,  *)
(* so what OrderServiceProofs shows of the tables holds under it; KInv     *)
(* adds what ties a pod's record to its partition and to its call.         *)
(***************************************************************************)
EXTENDS KafkaCheckoutListener, OrderServiceProofs

(* Neither a session nor the group is ahead of the log. *)
WithinLog == \A p \in Partition : /\ pos[p] <= Len(log[p]) /\ base[p] <= Len(log[p])
                                  /\ stored[p] # NoOffset => stored[p] <= Len(log[p])

(* The call of a pod's record was made with that record, and while the pod    *)
(* keeps the partition the record is the one at the read position.            *)
RecordInHand ==
  \A w \in Worker : cur[w] # NoRecord =>
    /\ cur[w].off < Len(log[cur[w].part])
    /\ req[w] = log[cur[w].part][cur[w].off + 1]
    /\ pc[w] # "idle"
    /\ owner[cur[w].part] = w => pos[cur[w].part] = cur[w].off

KInv == KTypeOK /\ WithinLog /\ RecordInHand /\ OffsetsFollowOrders /\ OrdersFollowTheLog

USE DEF NoRecord, Fault, LeaveGroup, logVars

(* The record at a read position below the end is a request or junk. *)
LEMMA RecordType ==
  ASSUME KTypeOK, NEW p \in Partition, NEW n \in Nat, n < Len(log[p])
  PROVE  log[p][n + 1] \in Request \cup {Junk}
<1>1. log[p] \in Seq(Request \cup {Junk}) /\ n + 1 \in 1 .. Len(log[p])
  BY DEF KTypeOK
<1> QED BY <1>1

(* The listener hands OrderService nothing but its own steps. *)
LEMMA DrivesStep == KTypeOK /\ [KNext]_kvars => [Next]_vars
<1> SUFFICES ASSUME KTypeOK, [KNext]_kvars PROVE [Next]_vars
  OBVIOUS
<1>1. ASSUME NEW w \in Worker, Process(w) \/ CallFails(w) \/ Finish(w) PROVE Next
  BY <1>1 DEF Process, CallFails, Finish, Next
<1>2. ASSUME NEW w \in Worker, NEW p \in Partition, Deliver(w, p) PROVE [Next]_vars
  <2>1. log[p][pos[p] + 1] \in Request \cup {Junk}
    BY <1>2, RecordType DEF Deliver, KTypeOK
  <2> QED BY <1>2, <2>1 DEF Deliver, Next
<1>3. ASSUME NEW w \in Worker, PodDies(w) PROVE Next
  BY <1>3, HomeType DEF PodDies, Next
<1>4. ASSUME NEW w \in Worker, ConsumerStops(w) \/ \E p \in Partition : Assign(w, p) \/ StoreOffset(w, p)
      PROVE  UNCHANGED vars
  BY <1>4 DEF ConsumerStops, Assign, StoreOffset
<1>5. ASSUME NEW p \in Partition, NEW e \in Request \cup {Junk}, Produce(p, e)
      PROVE  UNCHANGED vars
  BY <1>5 DEF Produce
<1>6. CASE UNCHANGED kvars
  BY <1>6 DEF kvars
<1> QED BY <1>1, <1>2, <1>3, <1>4, <1>5, <1>6 DEF KNext, Consume

(* An order stays, so a record that has one keeps it. *)
LEMMA OrderedStays ==
  ASSUME orders \subseteq orders', NEW e, Ordered(e)
  PROVE  Ordered(e)'
  BY DEF Ordered

(* When a step reads or stores nothing beyond what was read or stored, but    *)
(* for records that have their order, the offsets still follow the orders.    *)
LEMMA OffsetsStep ==
  ASSUME OffsetsFollowOrders, KTypeOK, KTypeOK', orders \subseteq orders', log' = log,
         \A p \in Partition : \A n \in base'[p] + 1 .. Len(log[p]) :
           n <= pos'[p] \/ (stored'[p] # NoOffset /\ n <= stored'[p])
             => \/ n > base[p] /\ (n <= pos[p] \/ (stored[p] # NoOffset /\ n <= stored[p]))
                \/ Ordered(log[p][n])
  PROVE  OffsetsFollowOrders'
<1> SUFFICES ASSUME NEW p \in Partition, NEW n \in base'[p] + 1 .. Len(log[p]),
                    n <= pos'[p] \/ (stored'[p] # NoOffset /\ n <= stored'[p])
             PROVE  Ordered(log[p][n])'
  BY DEF OffsetsFollowOrders
<1>1. base[p] \in Nat /\ base'[p] \in Nat /\ Len(log[p]) \in Nat
  BY DEF KTypeOK
<1>2. n \in Nat
  BY <1>1
<1>3. Ordered(log[p][n])
  <2>1. CASE n > base[p] /\ (n <= pos[p] \/ (stored[p] # NoOffset /\ n <= stored[p]))
    <3>1. n \in base[p] + 1 .. Len(log[p])
      BY <1>1, <1>2, <2>1
    <3> QED BY <2>1, <3>1 DEF OffsetsFollowOrders
  <2> QED BY <2>1
<1>4. PICK e : e = log[p][n]
  OBVIOUS
<1> QED BY <1>3, <1>4, OrderedStays DEF Ordered

(* In particular when it moves no position at all. *)
LEMMA PositionsKept ==
  ASSUME OffsetsFollowOrders, KTypeOK, KTypeOK', orders \subseteq orders',
         UNCHANGED <<log, stored, pos, base>>
  PROVE  OffsetsFollowOrders'
<1>1. ASSUME NEW p \in Partition, NEW n \in base[p] + 1 .. Len(log[p])
      PROVE  n > base[p]
  BY DEF KTypeOK
<1> QED BY <1>1, OffsetsStep

(* A step that leaves a pod's record in its hands, or takes it away, and       *)
(* moves no beginning back keeps the orders of the records before it.          *)
LEMMA LogOrderStep ==
  ASSUME OrdersFollowTheLog, KTypeOK, orders \subseteq orders',
         \A p \in Partition : base'[p] \in Nat /\ base'[p] >= base[p],
         \A w \in Worker : cur'[w] = cur[w] \/ cur'[w] = NoRecord,
         \A w \in Worker : cur[w] # NoRecord =>
           \A n \in 1 .. cur[w].off : log'[cur[w].part][n] = log[cur[w].part][n]
  PROVE  OrdersFollowTheLog'
<1> SUFFICES ASSUME NEW w \in Worker, cur'[w] # NoRecord,
                    NEW n \in base'[cur'[w].part] + 1 .. cur'[w].off
             PROVE  Ordered(log[cur[w].part][n])'
  BY DEF OrdersFollowTheLog
<1>1. cur'[w] = cur[w] /\ cur[w] \in [part : Partition, off : Nat]
  BY DEF KTypeOK
<1>2. PICK p \in Partition, k \in Nat : p = cur[w].part /\ k = cur[w].off
  BY <1>1
<1>3. base[p] \in Nat /\ base'[p] \in Nat /\ base'[p] >= base[p] /\ n \in base'[p] + 1 .. k
  BY <1>1, <1>2 DEF KTypeOK
<1>4. n \in base[p] + 1 .. k /\ n \in 1 .. k
  BY <1>2, <1>3
<1>5. Ordered(log[p][n]) /\ log'[p][n] = log[p][n]
  BY <1>1, <1>2, <1>4 DEF OrdersFollowTheLog
<1> QED BY <1>1, <1>2, <1>5 DEF Ordered

(* No partition is assigned and nothing has been read: KInv holds at first. *)
LEMMA InitKInv == KInit => KInv
  BY BoundsType DEF KInit, KInv, KTypeOK, WithinLog, RecordInHand, OffsetsFollowOrders,
     OrdersFollowTheLog

(* A record appended lies beyond every position. *)
LEMMA ProduceStep ==
  ASSUME KInv, NEW p \in Partition, NEW e \in Request \cup {Junk}, Produce(p, e)
  PROVE  KInv'
<1> USE DEF KInv, Produce, vars, dbVars
<1>1. KTypeOK'
  <2>1. log' \in [Partition -> Seq(Request \cup {Junk})]
    BY DEF KTypeOK
  <2>2. UNCHANGED <<subscribed, stored, pos, base, owner, cur, faults>>
    OBVIOUS
  <2> QED BY <2>1, <2>2 DEF KTypeOK
<1>2. /\ Len(log'[p]) = Len(log[p]) + 1
      /\ \A n \in 1 .. Len(log[p]) : log'[p][n] = log[p][n]
      /\ \A q \in Partition : q # p => log'[q] = log[q]
  BY DEF KTypeOK
<1>3. WithinLog'
  BY <1>2 DEF WithinLog, KTypeOK
<1>4. RecordInHand'
  BY <1>2 DEF RecordInHand, KTypeOK
<1>5. OffsetsFollowOrders'
  <2> SUFFICES ASSUME NEW q \in Partition, NEW n \in base[q] + 1 .. Len(log'[q]),
                      n <= pos[q] \/ (stored[q] # NoOffset /\ n <= stored[q])
               PROVE  Ordered(log[q][n])'
    BY DEF OffsetsFollowOrders
  <2>1. base[q] \in Nat /\ pos[q] \in Nat /\ stored[q] \in Nat \cup {NoOffset} /\ Len(log[q]) \in Nat
    BY DEF KTypeOK
  <2>2. n <= Len(log[q]) /\ n \in Nat /\ n > base[q]
    BY <1>2, <2>1 DEF WithinLog
  <2>3. Ordered(log[q][n]) /\ log'[q][n] = log[q][n]
    BY <1>2, <2>1, <2>2 DEF OffsetsFollowOrders
  <2> QED BY <2>3 DEF Ordered
<1>6. OrdersFollowTheLog'
  <2>1. ASSUME NEW w \in Worker, cur[w] # NoRecord
        PROVE  \A n \in 1 .. cur[w].off : log'[cur[w].part][n] = log[cur[w].part][n]
    <3>1. PICK q \in Partition, k \in Nat : q = cur[w].part /\ k = cur[w].off
      BY <2>1 DEF KTypeOK
    <3>2. k < Len(log[q]) /\ Len(log[q]) \in Nat
      BY <2>1, <3>1 DEF RecordInHand, KTypeOK
    <3>3. \A n \in 1 .. k : n \in 1 .. Len(log[q])
      BY <3>2
    <3> QED BY <1>2, <3>1, <3>3
  <2>2. \A q \in Partition : base'[q] \in Nat /\ base'[q] >= base[q]
    BY DEF KTypeOK
  <2> QED BY <2>1, <2>2, LogOrderStep
<1> QED BY <1>1, <1>3, <1>4, <1>5, <1>6

(* A new session begins at the stored offset or at the end of the partition. *)
LEMMA AssignStep ==
  ASSUME KInv, NEW w \in Worker, NEW p \in Partition, Assign(w, p)
  PROVE  KInv'
<1> USE DEF KInv, Assign, vars, dbVars
<1> DEFINE from == IF stored[p] = NoOffset THEN Len(log[p]) ELSE stored[p]
<1>1. /\ from \in Nat /\ from <= Len(log[p])
      /\ pos' = [pos EXCEPT ![p] = from]
      /\ base' = IF stored[p] = NoOffset THEN [base EXCEPT ![p] = from] ELSE base
  BY DEF KTypeOK, WithinLog
<1> HIDE DEF from
<1>2. KTypeOK'
  BY <1>1, BoundsType DEF KTypeOK
<1>3. WithinLog'
  BY <1>1 DEF WithinLog, KTypeOK
<1>4. RecordInHand'
  BY <1>1 DEF RecordInHand, KTypeOK
<1>5. ASSUME NEW q \in Partition, NEW n \in base'[q] + 1 .. Len(log[q]),
             n <= pos'[q] \/ (stored[q] # NoOffset /\ n <= stored[q])
      PROVE  n > base[q] /\ (n <= pos[q] \/ (stored[q] # NoOffset /\ n <= stored[q]))
  <2>1. base[q] \in Nat /\ pos[q] \in Nat /\ stored[q] \in Nat \cup {NoOffset} /\ Len(log[q]) \in Nat
    BY DEF KTypeOK
  <2>2. CASE q # p
    BY <1>1, <1>5, <2>1, <2>2 DEF KTypeOK
  <2>3. CASE q = p /\ stored[p] = NoOffset
    BY <1>1, <1>5, <2>1, <2>3 DEF KTypeOK, from
  <2>4. CASE q = p /\ stored[p] # NoOffset
    BY <1>1, <1>5, <2>1, <2>4 DEF KTypeOK, from
  <2> QED BY <2>2, <2>3, <2>4
<1>6. OffsetsFollowOrders'
  BY <1>2, <1>5, OffsetsStep
<1>7. \A q \in Partition : base'[q] \in Nat /\ base'[q] >= base[q]
  BY <1>1 DEF KTypeOK, WithinLog, from
<1>8. OrdersFollowTheLog'
  BY <1>7, LogOrderStep
<1> QED BY <1>2, <1>3, <1>4, <1>6, <1>8

(* A record handed to OrderService stays at the read position; junk is passed. *)
LEMMA DeliverStep ==
  ASSUME KInv, TypeOK, NEW w \in Worker, NEW p \in Partition, Deliver(w, p)
  PROVE  KInv'
<1> USE DEF KInv, Deliver
<1>0. /\ pos[p] \in Nat /\ Len(log[p]) \in Nat /\ pos[p] < Len(log[p])
      /\ log[p][pos[p] + 1] \in Request \cup {Junk}
  BY RecordType DEF KTypeOK
<1>1. CASE log[p][pos[p] + 1] = Junk
  <2>1. /\ pos' = [pos EXCEPT ![p] = @ + 1]
        /\ UNCHANGED <<vars, cur, log, stored, base, owner, faults>>
    BY <1>1
  <2>2. KTypeOK'
    BY <2>1 DEF KTypeOK
  <2>3. WithinLog'
    BY <1>0, <2>1 DEF WithinLog, KTypeOK
  <2>4. RecordInHand'
    BY <2>1 DEF RecordInHand, KTypeOK, vars
  <2>5. ASSUME NEW q \in Partition, NEW n \in base'[q] + 1 .. Len(log[q]),
               n <= pos'[q] \/ (stored'[q] # NoOffset /\ n <= stored'[q])
        PROVE  \/ n > base[q] /\ (n <= pos[q] \/ (stored[q] # NoOffset /\ n <= stored[q]))
               \/ Ordered(log[q][n])
    <3>1. base[q] \in Nat /\ pos[q] \in Nat /\ Len(log[q]) \in Nat /\ n \in Nat /\ n > base[q]
      BY <2>1 DEF KTypeOK
    <3>2. CASE q = p /\ n = pos[p] + 1
      BY <1>1, <3>2 DEF Ordered
    <3>3. CASE ~(q = p /\ n = pos[p] + 1)
      BY <2>1, <2>5, <3>1, <3>3 DEF KTypeOK
    <3> QED BY <3>2, <3>3
  <2>6. OffsetsFollowOrders'
    BY <2>1, <2>2, <2>5, OffsetsStep DEF vars
  <2>7. OrdersFollowTheLog'
    <3>1. orders' = orders /\ \A q \in Partition : base'[q] \in Nat /\ base'[q] >= base[q]
      BY <2>1 DEF vars, KTypeOK
    <3> QED BY <2>1, <3>1, LogOrderStep
  <2> QED BY <2>2, <2>3, <2>4, <2>6, <2>7
<1>2. CASE log[p][pos[p] + 1] # Junk
  <2> DEFINE r == log[p][pos[p] + 1]
  <2>1. /\ Start(w, r) /\ r \in Request
        /\ cur' = [cur EXCEPT ![w] = [part |-> p, off |-> pos[p]]]
        /\ UNCHANGED <<pos, log, stored, base, owner, faults>>
    BY <1>0, <1>2
  <2>2. KTypeOK'
    BY <1>0, <2>1 DEF KTypeOK
  <2>3. WithinLog'
    BY <2>1 DEF WithinLog
  <2>4. RecordInHand'
    <3>1. /\ req' = [req EXCEPT ![w] = r] /\ pc' = [pc EXCEPT ![w] = "lookup"]
      BY <2>1 DEF Start, Goto
    <3> QED BY <1>0, <2>1, <3>1 DEF RecordInHand, KTypeOK, TypeOK
  <2>5. OffsetsFollowOrders'
    <3>1. orders' = orders
      BY <2>1 DEF Start, dbVars
    <3> QED BY <2>1, <2>2, <3>1, PositionsKept
  <2>6. OrdersFollowTheLog'
    <3>0. orders' = orders
      BY <2>1 DEF Start, dbVars
    <3>1. ASSUME NEW n \in base[p] + 1 .. pos[p] PROVE Ordered(log[p][n])
      <4>1. base[p] \in Nat /\ n <= pos[p] /\ n \in base[p] + 1 .. Len(log[p])
        BY <1>0, <3>1 DEF KTypeOK
      <4> QED BY <4>1 DEF OffsetsFollowOrders
    <3>2. ASSUME NEW v \in Worker, cur'[v] # NoRecord,
                 NEW n \in base[cur'[v].part] + 1 .. cur'[v].off
          PROVE  Ordered(log[cur'[v].part][n])
      <4>1. CASE v = w
        BY <2>1, <3>1, <3>2, <4>1 DEF KTypeOK
      <4>2. CASE v # w
        BY <2>1, <3>2, <4>2 DEF OrdersFollowTheLog, KTypeOK
      <4> QED BY <4>1, <4>2
    <3> QED BY <2>1, <3>0, <3>2 DEF OrdersFollowTheLog, Ordered
  <2> QED BY <2>2, <2>3, <2>4, <2>5, <2>6
<1> QED BY <1>1, <1>2

(* A call that ends resolves its record only with an answer, hence with an    *)
(* order, and only for the partition its pod still has.                       *)
LEMMA FinishStep ==
  ASSUME KInv, TypeOK, AnswersAreCommitted, NEW w \in Worker, Finish(w)
  PROVE  KInv'
<1> USE DEF KInv, Finish
<1> PICK c \in [part : Partition, off : Nat] : c = cur[w]
  BY DEF KTypeOK
<1>0. /\ c.part \in Partition /\ c.off \in Nat /\ c.off < Len(log[c.part])
      /\ req[w] = log[c.part][c.off + 1]
      /\ owner[c.part] = w => pos[c.part] = c.off
  BY DEF RecordInHand
<1>1. /\ req' = [req EXCEPT ![w] = None] /\ pc' = [pc EXCEPT ![w] = "idle"]
      /\ orders' = orders
      /\ UNCHANGED <<log, stored, base, owner, faults>>
      /\ cur' = [cur EXCEPT ![w] = NoRecord]
  BY DEF Return, Goto, dbVars
<1>4. OrdersFollowTheLog'
  <2>1. /\ \A p \in Partition : base'[p] \in Nat /\ base'[p] >= base[p]
        /\ \A v \in Worker : cur'[v] = cur[v] \/ cur'[v] = NoRecord
    BY <1>1 DEF KTypeOK
  <2> QED BY <1>1, <2>1, LogOrderStep
<1>2. CASE pc[w] = "reply" /\ owner[c.part] = w
  <2>1. pos' = [pos EXCEPT ![c.part] = c.off + 1]
    BY <1>2
  <2>2. KTypeOK'
    BY <1>0, <1>1, <2>1 DEF KTypeOK
  <2>3. WithinLog'
    BY <1>0, <1>1, <2>1 DEF WithinLog, KTypeOK
  <2>4. RecordInHand'
    BY <1>1, <1>2, <2>1 DEF RecordInHand, KTypeOK, TypeOK
  <2>5. Ordered(log[c.part][c.off + 1])
    BY <1>0, <1>2 DEF AnswersAreCommitted, CorrOf, Ordered
  <2>6. ASSUME NEW q \in Partition, NEW n \in base'[q] + 1 .. Len(log[q]),
               n <= pos'[q] \/ (stored'[q] # NoOffset /\ n <= stored'[q])
        PROVE  \/ n > base[q] /\ (n <= pos[q] \/ (stored[q] # NoOffset /\ n <= stored[q]))
               \/ Ordered(log[q][n])
    <3>1. base[q] \in Nat /\ pos[q] \in Nat /\ Len(log[q]) \in Nat /\ n \in Nat /\ n > base[q]
      BY <1>1 DEF KTypeOK
    <3>2. CASE q = c.part /\ n = c.off + 1
      BY <2>5, <3>2
    <3>3. CASE ~(q = c.part /\ n = c.off + 1)
      BY <1>0, <1>1, <1>2, <2>1, <2>6, <3>1, <3>3 DEF KTypeOK
    <3> QED BY <3>2, <3>3
  <2>7. OffsetsFollowOrders'
    BY <1>1, <2>2, <2>6, OffsetsStep
  <2> QED BY <1>4, <2>2, <2>3, <2>4, <2>7
<1>3. CASE ~(pc[w] = "reply" /\ owner[c.part] = w)
  <2>1. pos' = pos
    BY <1>3
  <2>2. KTypeOK'
    BY <1>1, <2>1 DEF KTypeOK
  <2>3. WithinLog' /\ RecordInHand'
    BY <1>1, <2>1 DEF WithinLog, RecordInHand, KTypeOK, TypeOK
  <2>4. OffsetsFollowOrders'
    BY <1>1, <2>1, <2>2, PositionsKept
  <2> QED BY <1>4, <2>2, <2>3, <2>4
<1> QED BY <1>2, <1>3

(* The group stores no more than a session has read. *)
LEMMA StoreStep ==
  ASSUME KInv, NEW w \in Worker, NEW p \in Partition, StoreOffset(w, p)
  PROVE  KInv'
<1> USE DEF KInv, StoreOffset
<1>1. KTypeOK'
  BY DEF KTypeOK
<1>2. WithinLog' /\ RecordInHand'
  BY DEF WithinLog, RecordInHand, KTypeOK, vars
<1>3. ASSUME NEW q \in Partition, NEW n \in base'[q] + 1 .. Len(log[q]),
             n <= pos'[q] \/ (stored'[q] # NoOffset /\ n <= stored'[q])
      PROVE  n > base[q] /\ (n <= pos[q] \/ (stored[q] # NoOffset /\ n <= stored[q]))
  BY <1>3 DEF KTypeOK
<1>4. OffsetsFollowOrders'
  BY <1>1, <1>3, OffsetsStep DEF vars
<1>5. OrdersFollowTheLog'
  <2>1. orders' = orders /\ \A q \in Partition : base'[q] \in Nat /\ base'[q] >= base[q]
    BY DEF vars, KTypeOK
  <2> QED BY <2>1, LogOrderStep
<1> QED BY <1>1, <1>2, <1>4, <1>5

(* A step of a call, or its failure, keeps the arguments and the positions.   *)
LEMMA CallStep ==
  ASSUME KInv, IInv, [Next]_vars, NEW w \in Worker, Process(w) \/ CallFails(w)
  PROVE  KInv'
<1> USE DEF KInv
<1>1. /\ req' = req /\ \E l \in Label \ {"idle"} : pc' = [pc EXCEPT ![w] = l]
      /\ UNCHANGED <<subscribed, log, stored, pos, base, owner, cur>>
      /\ faults' \in 0 .. MaxFaults
  <2>1. ASSUME Work(w) PROVE req' = req /\ \E l \in Label \ {"idle"} : pc' = [pc EXCEPT ![w] = l]
    BY <2>1 DEF Work, LookupHit, LookupMiss, RecheckHit, RecheckMiss, InsertOrder,
       DuplicateCorrelation, SaveKey, Commit, Emit, Throw, AnswerExisting, Goto,
       Label, InTx, InsertedAt
  <2>2. ASSUME Abort(w) PROVE req' = req /\ \E l \in Label \ {"idle"} : pc' = [pc EXCEPT ![w] = l]
    BY <2>2 DEF Abort, Throw, Goto, Label
  <2> QED BY <2>1, <2>2, BoundsType DEF Process, CallFails, KTypeOK
<1>2. KTypeOK'
  BY <1>1 DEF KTypeOK
<1>3. WithinLog'
  BY <1>1 DEF WithinLog
<1>4. RecordInHand'
  BY <1>1 DEF RecordInHand, IInv, TypeOK
<1>5. OffsetsFollowOrders'
  BY <1>1, <1>2, FinalStep, PositionsKept
<1>6. OrdersFollowTheLog'
  <2>1. \A p \in Partition : base'[p] \in Nat /\ base'[p] >= base[p]
    BY <1>1 DEF KTypeOK
  <2> QED BY <1>1, <2>1, FinalStep, LogOrderStep
<1> QED BY <1>2, <1>3, <1>4, <1>5, <1>6

(* A pod that dies, or whose consumer stops, takes its own call and partitions *)
(* with it, and no other's.                                                    *)
LEMMA LeaveStep ==
  ASSUME KInv, TypeOK, NEW w \in Worker, PodDies(w) \/ ConsumerStops(w)
  PROVE  KInv'
<1> USE DEF KInv
<1>1. /\ \A v \in Worker \ {w} : req'[v] = req[v] /\ pc'[v] = pc[v]
      /\ orders' = orders
      /\ UNCHANGED <<log, stored, pos, base>>
      /\ cur' = [cur EXCEPT ![w] = NoRecord]
      /\ owner' = [p \in Partition |-> IF owner[p] = w THEN None ELSE owner[p]]
      /\ faults' \in 0 .. MaxFaults /\ subscribed' \subseteq Worker
  <2>1. CASE PodDies(w)
    BY <2>1, OnePodOneCall, BoundsType DEF PodDies, Restart, dbVars, KTypeOK
  <2>2. CASE ConsumerStops(w)
    BY <2>2, BoundsType DEF ConsumerStops, vars, KTypeOK
  <2> QED BY <2>1, <2>2
<1>2. KTypeOK'
  BY <1>1 DEF KTypeOK
<1>3. WithinLog'
  BY <1>1 DEF WithinLog
<1>4. RecordInHand'
  <2>1. \A v \in Worker, p \in Partition : owner'[p] = v => owner[p] = v
    BY <1>1, NoPod DEF KTypeOK
  <2>2. ASSUME NEW v \in Worker, cur'[v] # NoRecord PROVE v # w /\ cur'[v] = cur[v]
    BY <1>1, <2>2 DEF KTypeOK
  <2>3. \A v \in Worker : cur[v] # NoRecord => cur[v].part \in Partition
    BY DEF KTypeOK
  <2> QED BY <1>1, <2>1, <2>2, <2>3 DEF RecordInHand
<1>5. OffsetsFollowOrders'
  BY <1>1, <1>2, PositionsKept
<1>6. OrdersFollowTheLog'
  <2>1. /\ \A p \in Partition : base'[p] \in Nat /\ base'[p] >= base[p]
        /\ \A v \in Worker : cur'[v] = cur[v] \/ cur'[v] = NoRecord
    BY <1>1 DEF KTypeOK
  <2> QED BY <1>1, <2>1, LogOrderStep
<1> QED BY <1>2, <1>3, <1>4, <1>5, <1>6

(* Every step of the listener keeps both invariants. *)
LEMMA NextKInv == KInv /\ IInv /\ [KNext]_kvars => KInv' /\ IInv'
<1> SUFFICES ASSUME KInv, IInv, [KNext]_kvars PROVE KInv' /\ IInv'
  OBVIOUS
<1>1. [Next]_vars /\ TypeOK /\ AnswersAreCommitted
  BY DrivesStep DEF KInv, IInv
<1>2. IInv'
  BY <1>1, NextIInv
<1>3. CASE UNCHANGED kvars
  <2>1. KTypeOK'
    BY <1>3 DEF kvars, KInv, KTypeOK
  <2>2. WithinLog' /\ RecordInHand'
    BY <1>3 DEF kvars, KInv, WithinLog, RecordInHand, vars
  <2>3. OffsetsFollowOrders'
    <3>1. orders' = orders /\ UNCHANGED <<log, stored, pos, base>>
      BY <1>3 DEF kvars, vars
    <3> QED BY <2>1, <3>1, PositionsKept DEF KInv
  <2>4. OrdersFollowTheLog'
    BY <1>3 DEF kvars, vars, KInv, OrdersFollowTheLog, Ordered
  <2> QED BY <1>2, <2>1, <2>2, <2>3, <2>4 DEF KInv
<1> QED BY <1>1, <1>2, <1>3, ProduceStep, AssignStep, DeliverStep, FinishStep, StoreStep,
          CallStep, LeaveStep DEF KNext, Consume

(* Type correctness of the listener for every instance. *)
THEOREM KTypeCorrect == KSpec => []KTypeOK
<1>1. KInit => IInv
  BY InitIInv DEF KInit
<1>2. KInv => KTypeOK
  BY DEF KInv
<1> QED BY <1>1, <1>2, InitKInv, NextKInv, PTL DEF KSpec

(* However the group rebalances and pods die, its offset never passes a       *)
(* checkout that has no order.                                                *)
THEOREM OffsetsFollowOrdersHolds == KSpec => []OffsetsFollowOrders
<1>1. KInit => IInv
  BY InitIInv DEF KInit
<1>2. KInv => OffsetsFollowOrders
  BY DEF KInv
<1> QED BY <1>1, <1>2, InitKInv, NextKInv, PTL DEF KSpec

(* Checkouts of one partition become orders in the order of the log, though   *)
(* a pod that has lost the partition still works beside the new owner.        *)
THEOREM OrdersFollowTheLogHolds == KSpec => []OrdersFollowTheLog
<1>1. KInit => IInv
  BY InitIInv DEF KInit
<1>2. KInv => OrdersFollowTheLog
  BY DEF KInv
<1> QED BY <1>1, <1>2, InitKInv, NextKInv, PTL DEF KSpec
===============================================================================
