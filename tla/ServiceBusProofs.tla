---------------------------- MODULE ServiceBusProofs ----------------------------
(***************************************************************************)
(* Proofs about the Service Bus pump for any number of pods, messages,     *)
(* deliveries and batch sizes.  The pump only makes OrderService's steps   *)
(* (PumpStep), so what OrderServiceProofs shows of the tables is available *)
(* under it.  It completes a message only after its order is committed,    *)
(* and dead-letters no checkout that has no order without a cause.         *)
(***************************************************************************)
EXTENDS ServiceBusListener, OrderServiceProofs

(* The call a pump waits for was made with the message it will settle. *)
CallIsOfMessage == \A w \in Worker : cur[w] # None => req[w] = Carries[cur[w]] /\ pc[w] # "idle"

BInv == BTypeOK /\ CallIsOfMessage /\ CompletedMeansOrdered

USE DEF Fault, busVars

(* The pump hands OrderService nothing but its own steps. *)
LEMMA PumpStep == BTypeOK /\ [BNext]_bvars => [Next]_vars
<1> SUFFICES ASSUME BTypeOK, [BNext]_bvars PROVE [Next]_vars
  OBVIOUS
<1>1. ASSUME NEW w \in Worker, Process(w) \/ CallFails(w) PROVE Next
  BY <1>1 DEF Process, CallFails, Next
<1>2. ASSUME NEW w \in Worker, Complete(w) \/ DeadLetter(w) \/ GiveUpBatch(w) PROVE Next
  BY <1>2 DEF Complete, DeadLetter, GiveUpBatch, Settle, Next
<1>3. ASSUME NEW w \in Worker, Begin(w) PROVE Next
  <2>1. PICK b \in batch[w] : Start(w, Carries[b])
    BY <1>3 DEF Begin
  <2>2. Carries[b] \in Request
    BY <2>1, CarriesType DEF BTypeOK
  <2> QED BY <2>1, <2>2 DEF Next
<1>4. ASSUME NEW w \in Worker, PodDies(w) PROVE Next
  BY <1>4, HomeType DEF PodDies, Next
<1>5. ASSUME NEW w \in Worker, Receive(w) PROVE UNCHANGED vars
  BY <1>5 DEF Receive
<1>6. ASSUME NEW b \in BusMessage, Send(b) \/ LockExpires(b) PROVE UNCHANGED vars
  BY <1>6 DEF Send, LockExpires
<1>7. CASE UNCHANGED bvars
  BY <1>7 DEF bvars
<1> QED BY <1>1, <1>2, <1>3, <1>4, <1>5, <1>6, <1>7 DEF BNext

(* No message is completed and no call is running: BInv holds at first. *)
LEMMA InitBInv == BInit => BInv
  BY LimitsType DEF BInit, BInv, BTypeOK, CallIsOfMessage, CompletedMeansOrdered

(* A step that completes no message, or one with an order, keeps the property. *)
LEMMA CompletedStep ==
  ASSUME BInv, orders \subseteq orders',
         \A b \in BusMessage : state'[b] = "completed" => state[b] = "completed" \/ HasOrder(b)
  PROVE  CompletedMeansOrdered'
<1> SUFFICES ASSUME NEW b \in BusMessage, state'[b] = "completed" PROVE HasOrder(b)'
  BY DEF CompletedMeansOrdered
<1> QED BY DEF BInv, CompletedMeansOrdered, HasOrder

(* The answer a pump has got is the order of the message it settles. *)
LEMMA AnswerIsOrder ==
  ASSUME BInv, AnswersAreCommitted, NEW w \in Worker, cur[w] # None, pc[w] = "reply"
  PROVE  cur[w] \in BusMessage /\ HasOrder(cur[w])
  BY DEF BInv, BTypeOK, CallIsOfMessage, AnswersAreCommitted, CorrOf, HasOrder

(* A message is sent, or its lock ends. *)
LEMMA MessageStep ==
  ASSUME BInv, NEW b \in BusMessage, Send(b) \/ LockExpires(b)
  PROVE  BInv'
<1> USE DEF BInv, Send, LockExpires
<1>1. BTypeOK'
  BY LimitsType DEF BTypeOK
<1>2. CallIsOfMessage'
  BY DEF CallIsOfMessage, vars
<1>3. CompletedMeansOrdered'
  BY CompletedStep DEF BTypeOK, vars
<1> QED BY <1>1, <1>2, <1>3

(* A pump without a batch locks one. *)
LEMMA ReceiveStep ==
  ASSUME BInv, NEW w \in Worker, Receive(w)
  PROVE  BInv'
<1> USE DEF BInv
<1>1. PICK got \in SUBSET {c \in BusMessage : state[c] = "active"} :
        /\ state' = [c \in BusMessage |-> IF c \in got THEN "locked" ELSE state[c]]
        /\ holder' = [c \in BusMessage |-> IF c \in got THEN w ELSE holder[c]]
        /\ delivered' = [c \in BusMessage |-> IF c \in got THEN delivered[c] + 1 ELSE delivered[c]]
        /\ batch' = [batch EXCEPT ![w] = got]
  BY DEF Receive
<1>2. UNCHANGED <<vars, cur, failed, faults>> /\ cur[w] = None
  BY DEF Receive
<1>3. BTypeOK'
  BY <1>1, <1>2, NoneIsNoMessage DEF BTypeOK
<1>4. CallIsOfMessage'
  BY <1>2 DEF CallIsOfMessage, vars
<1>5. CompletedMeansOrdered'
  BY <1>1, <1>2, CompletedStep DEF vars
<1> QED BY <1>3, <1>4, <1>5

(* The next message of a batch becomes the argument of the call. *)
LEMMA BeginStep ==
  ASSUME BInv, TypeOK, NEW w \in Worker, Begin(w)
  PROVE  BInv'
<1> USE DEF BInv
<1>1. PICK b \in batch[w] : /\ Start(w, Carries[b])
                            /\ cur' = [cur EXCEPT ![w] = b]
                            /\ batch' = [batch EXCEPT ![w] = @ \ {b}]
  BY DEF Begin
<1>2. b \in BusMessage /\ UNCHANGED <<busVars, failed, faults>>
  BY DEF Begin, BTypeOK
<1>3. /\ req' = [req EXCEPT ![w] = Carries[b]] /\ pc' = [pc EXCEPT ![w] = "lookup"]
      /\ orders' = orders
  BY <1>1 DEF Start, Goto, dbVars
<1>4. BTypeOK'
  BY <1>1, <1>2 DEF BTypeOK
<1>5. CallIsOfMessage'
  BY <1>1, <1>2, <1>3 DEF CallIsOfMessage, BTypeOK, TypeOK
<1>6. CompletedMeansOrdered'
  BY <1>2, <1>3, CompletedStep
<1> QED BY <1>4, <1>5, <1>6

(* A pump settles its message, or gives its batch up: completed is only what  *)
(* was answered.                                                              *)
LEMMA SettleStep ==
  ASSUME BInv, TypeOK, AnswersAreCommitted, NEW w \in Worker,
         Complete(w) \/ DeadLetter(w) \/ GiveUpBatch(w)
  PROVE  BInv'
<1> USE DEF BInv
<1> PICK m \in BusMessage : m = cur[w] /\ m # None
  BY DEF Complete, DeadLetter, GiveUpBatch, BTypeOK
<1>1. /\ Return(w) /\ cur' = [cur EXCEPT ![w] = None] /\ UNCHANGED <<delivered, failed>>
      /\ batch' = batch \/ batch' = [batch EXCEPT ![w] = {}]
      /\ faults' \in 0 .. MaxFaults
      /\ holder' = holder \/ holder' = [holder EXCEPT ![m] = None]
  BY LimitsType DEF Complete, DeadLetter, GiveUpBatch, Settle, BTypeOK
<1>2. \/ state' = state
      \/ state' = [state EXCEPT ![m] = "dead"]
      \/ state' = [state EXCEPT ![m] = "completed"] /\ pc[w] = "reply"
  BY DEF Complete, DeadLetter, GiveUpBatch, Settle
<1>3. /\ req' = [req EXCEPT ![w] = None] /\ pc' = [pc EXCEPT ![w] = "idle"]
      /\ orders' = orders
  BY <1>1 DEF Return, Goto, dbVars
<1>4. BTypeOK'
  <2>1. /\ state' \in [BusMessage -> {"unsent", "active", "locked", "completed", "dead"}]
        /\ holder' \in [BusMessage -> Worker \cup {None}]
        /\ delivered' \in [BusMessage -> Nat]
    BY <1>1, <1>2 DEF BTypeOK
  <2>2. /\ batch' \in [Worker -> SUBSET BusMessage] /\ cur' \in [Worker -> BusMessage \cup {None}]
    BY <1>1 DEF BTypeOK
  <2>3. \A v \in Worker : cur'[v] \notin batch'[v]
    BY <1>1, NoneIsNoMessage DEF BTypeOK
  <2> QED BY <1>1, <2>1, <2>2, <2>3 DEF BTypeOK
<1>5. CallIsOfMessage'
  BY <1>1, <1>3 DEF CallIsOfMessage, BTypeOK, TypeOK
<1>6. pc[w] = "reply" => HasOrder(m)
  BY AnswerIsOrder
<1>7. CompletedMeansOrdered'
  BY <1>2, <1>3, <1>6, CompletedStep DEF BTypeOK
<1> QED BY <1>4, <1>5, <1>7

(* A step of a call, or its failure, keeps the arguments and the messages. *)
LEMMA CallStep ==
  ASSUME BInv, IInv, [Next]_vars, NEW w \in Worker, Process(w) \/ CallFails(w)
  PROVE  BInv'
<1> USE DEF BInv
<1>1. /\ req' = req /\ \E l \in Label \ {"idle"} : pc' = [pc EXCEPT ![w] = l]
      /\ UNCHANGED <<state, holder, delivered, batch, cur>>
      /\ failed' \subseteq BusMessage /\ faults' \in 0 .. MaxFaults
  <2>1. ASSUME Work(w) PROVE req' = req /\ \E l \in Label \ {"idle"} : pc' = [pc EXCEPT ![w] = l]
    BY <2>1 DEF Work, LookupHit, LookupMiss, RecheckHit, RecheckMiss, InsertOrder,
       DuplicateCorrelation, SaveKey, Commit, Emit, Throw, AnswerExisting, Goto,
       Label, InTx, InsertedAt
  <2>2. ASSUME Abort(w) PROVE req' = req /\ \E l \in Label \ {"idle"} : pc' = [pc EXCEPT ![w] = l]
    BY <2>2 DEF Abort, Throw, Goto, Label
  <2> QED BY <2>1, <2>2, LimitsType DEF Process, CallFails, BTypeOK
<1>2. BTypeOK'
  BY <1>1 DEF BTypeOK
<1>3. CallIsOfMessage'
  BY <1>1 DEF CallIsOfMessage, IInv, TypeOK
<1>4. CompletedMeansOrdered'
  BY <1>1, FinalStep, CompletedStep
<1> QED BY <1>2, <1>3, <1>4

(* A pod that dies leaves its messages to their locks. *)
LEMMA PodDiesStep ==
  ASSUME BInv, TypeOK, NEW w \in Worker, PodDies(w)
  PROVE  BInv'
<1> USE DEF BInv, PodDies
<1>1. /\ \A v \in Worker \ {w} : req'[v] = req[v] /\ pc'[v] = pc[v]
      /\ orders' = orders
      /\ UNCHANGED <<state, holder, delivered>>
      /\ cur' = [cur EXCEPT ![w] = None] /\ batch' = [batch EXCEPT ![w] = {}]
  BY PumpPerPod DEF Restart, dbVars
<1>2. BTypeOK'
  BY <1>1, LimitsType DEF BTypeOK
<1>3. CallIsOfMessage'
  BY <1>1 DEF CallIsOfMessage, BTypeOK
<1>4. CompletedMeansOrdered'
  BY <1>1, CompletedStep
<1> QED BY <1>2, <1>3, <1>4

(* Every step of the pump keeps both invariants. *)
LEMMA NextBInv == BInv /\ IInv /\ [BNext]_bvars => BInv' /\ IInv'
<1> SUFFICES ASSUME BInv, IInv, [BNext]_bvars PROVE BInv' /\ IInv'
  OBVIOUS
<1>1. [Next]_vars /\ TypeOK /\ AnswersAreCommitted
  BY PumpStep DEF BInv, IInv
<1>2. IInv'
  BY <1>1, NextIInv
<1>3. CASE UNCHANGED bvars
  <2>1. UNCHANGED <<orders, pc, req, state, holder, delivered, batch, cur, failed, faults>>
    BY <1>3 DEF bvars, vars
  <2>2. BTypeOK' /\ CallIsOfMessage'
    BY <2>1 DEF BInv, BTypeOK, CallIsOfMessage
  <2>3. CompletedMeansOrdered'
    BY <2>1, CompletedStep DEF BInv
  <2> QED BY <1>2, <2>2, <2>3 DEF BInv
<1> QED BY <1>1, <1>2, <1>3, MessageStep, ReceiveStep, BeginStep, SettleStep,
          CallStep, PodDiesStep DEF BNext

(* Type correctness of the pump for every instance. *)
THEOREM BTypeCorrect == BSpec => []BTypeOK
<1>1. BInit => IInv
  BY InitIInv DEF BInit
<1>2. BInv => BTypeOK
  BY DEF BInv
<1> QED BY <1>1, <1>2, InitBInv, NextBInv, PTL DEF BSpec

(* Whatever locks expire and pods die, a message leaves the subscription as   *)
(* completed only when its order is committed.                                *)
THEOREM CompletedMeansOrderedHolds == BSpec => []CompletedMeansOrdered
<1>1. BInit => IInv
  BY InitIInv DEF BInit
<1>2. BInv => CompletedMeansOrdered
  BY DEF BInv
<1> QED BY <1>1, <1>2, InitBInv, NextBInv, PTL DEF BSpec

-------------------------------------------------------------------------------
(* While nothing has failed: a message in a pump's hands is locked by it,     *)
(* every lock is of such a message, and a call that threw threw for want of a *)
(* well-formed checkout or for an order that is there.                        *)
HandsHoldLocks == /\ \A w \in Worker : \A b \in batch[w] : state[b] = "locked" /\ holder[b] = w
                  /\ \A w \in Worker : cur[w] # None => state[cur[w]] = "locked" /\ holder[cur[w]] = w
LocksAreHeld == \A b \in BusMessage : state[b] = "locked" =>
                  \E w \in Worker : holder[b] = w /\ b \in batch[w] \cup {cur[w]}
ThrowsForAReason == \A w \in Worker :
  cur[w] # None /\ pc[w] = "fail" /\ Carries[cur[w]].msg \in Balanced => HasOrder(cur[w])

Unfailed == faults = 0 => HandsHoldLocks /\ LocksAreHeld /\ ThrowsForAReason

UInv == Unfailed /\ NoCheckoutLostUnfailed

(* Nothing is locked or dead at first. *)
LEMMA InitUInv == BInit => UInv
  BY DEF BInit, UInv, Unfailed, HandsHoldLocks, LocksAreHeld, ThrowsForAReason, NoCheckoutLostUnfailed

(* A message keeps its order. *)
LEMMA HasOrderStays ==
  ASSUME orders \subseteq orders', NEW b, HasOrder(b)
  PROVE  HasOrder(b)'
  BY DEF HasOrder

(* A fault ends all these promises. *)
LEMMA FaultStep == ASSUME BTypeOK, Fault PROVE UInv'
<1>1. faults' # 0
  BY DEF BTypeOK
<1> QED BY <1>1 DEF UInv, Unfailed, NoCheckoutLostUnfailed

(* A message is sent; a lock that expires is in some pump's hands. *)
LEMMA MessageUStep ==
  ASSUME BInv, UInv, NEW b \in BusMessage, Send(b) \/ LockExpires(b)
  PROVE  UInv'
<1>1. CASE Send(b)
  <2> USE <1>1 DEF Send, BInv, BTypeOK, vars
  <2>1. Unfailed'
    BY DEF UInv, Unfailed, HandsHoldLocks, LocksAreHeld, ThrowsForAReason, HasOrder
  <2>2. NoCheckoutLostUnfailed'
    BY DEF UInv, NoCheckoutLostUnfailed, HasOrder
  <2> QED BY <2>1, <2>2 DEF UInv
<1>2. CASE LockExpires(b) /\ faults # 0
  <2>1. faults' # 0
    BY <1>2 DEF LockExpires, BInv, BTypeOK
  <2> QED BY <2>1 DEF UInv, Unfailed, NoCheckoutLostUnfailed
<1>3. CASE LockExpires(b) /\ faults = 0
  <2>1. Fault
    BY <1>3 DEF LockExpires, UInv, Unfailed, LocksAreHeld
  <2> QED BY <2>1, FaultStep DEF BInv
<1> QED BY <1>1, <1>2, <1>3

(* What a pump receives it locks, and has in its hands. *)
LEMMA ReceiveUStep ==
  ASSUME BInv, UInv, NEW w \in Worker, Receive(w)
  PROVE  UInv'
<1>1. PICK got \in SUBSET {c \in BusMessage : state[c] = "active"} :
        /\ state' = [c \in BusMessage |-> IF c \in got THEN "locked" ELSE state[c]]
        /\ holder' = [c \in BusMessage |-> IF c \in got THEN w ELSE holder[c]]
        /\ batch' = [batch EXCEPT ![w] = got]
  BY DEF Receive
<1>2. UNCHANGED <<orders, pc, cur, faults>> /\ cur[w] = None /\ batch[w] = {}
  BY DEF Receive, vars
<1>3. HandsHoldLocks /\ faults = 0 => HandsHoldLocks'
  <2> SUFFICES ASSUME HandsHoldLocks PROVE HandsHoldLocks'
    OBVIOUS
  <2>1. ASSUME NEW v \in Worker, NEW b \in batch'[v] PROVE state'[b] = "locked" /\ holder'[b] = v
    BY <1>1, <1>2 DEF HandsHoldLocks, BInv, BTypeOK
  <2>2. ASSUME NEW v \in Worker, cur'[v] # None PROVE state'[cur'[v]] = "locked" /\ holder'[cur'[v]] = v
    BY <2>2, <1>1, <1>2 DEF HandsHoldLocks, BInv, BTypeOK
  <2> QED BY <2>1, <2>2 DEF HandsHoldLocks
<1>4. LocksAreHeld => LocksAreHeld'
  <2> SUFFICES ASSUME LocksAreHeld, NEW b \in BusMessage, state'[b] = "locked"
               PROVE  \E v \in Worker : holder'[b] = v /\ b \in batch'[v] \cup {cur'[v]}
    BY DEF LocksAreHeld
  <2>1. CASE b \in got
    BY <2>1, <1>1 DEF BInv, BTypeOK
  <2>2. CASE b \notin got
    <3>1. PICK v \in Worker : holder[b] = v /\ b \in batch[v] \cup {cur[v]}
      BY <2>2, <1>1 DEF LocksAreHeld
    <3>2. v # w
      BY <3>1, <1>2, NoneIsNoMessage
    <3> QED BY <2>2, <3>1, <3>2, <1>1, <1>2 DEF BInv, BTypeOK
  <2> QED BY <2>1, <2>2
<1>5. ThrowsForAReason => ThrowsForAReason'
  BY <1>2 DEF ThrowsForAReason, HasOrder
<1>6. NoCheckoutLostUnfailed'
  BY <1>1, <1>2 DEF UInv, NoCheckoutLostUnfailed, HasOrder
<1> QED BY <1>2, <1>3, <1>4, <1>5, <1>6 DEF UInv, Unfailed

(* A message goes from the batch to the call. *)
LEMMA BeginUStep ==
  ASSUME BInv, UInv, TypeOK, NEW w \in Worker, Begin(w)
  PROVE  UInv'
<1>1. PICK b \in batch[w] : /\ Start(w, Carries[b])
                            /\ cur' = [cur EXCEPT ![w] = b]
                            /\ batch' = [batch EXCEPT ![w] = @ \ {b}]
  BY DEF Begin
<1>2. /\ UNCHANGED <<state, holder, faults>> /\ orders' = orders
      /\ pc' = [pc EXCEPT ![w] = "lookup"] /\ cur[w] = None /\ b \in BusMessage
  BY <1>1 DEF Begin, Start, Goto, dbVars, BInv, BTypeOK
<1>3. HandsHoldLocks => HandsHoldLocks'
  BY <1>1, <1>2 DEF HandsHoldLocks, BInv, BTypeOK
<1>4. LocksAreHeld => LocksAreHeld'
  BY <1>1, <1>2, NoneIsNoMessage DEF LocksAreHeld, BInv, BTypeOK
<1>5. ThrowsForAReason => ThrowsForAReason'
  BY <1>1, <1>2 DEF ThrowsForAReason, HasOrder, BInv, BTypeOK, TypeOK
<1>6. NoCheckoutLostUnfailed'
  BY <1>2 DEF UInv, NoCheckoutLostUnfailed, HasOrder
<1> QED BY <1>2, <1>3, <1>4, <1>5, <1>6 DEF UInv, Unfailed

(* A failure that came before, or that the step is. *)
LEMMA AfterFault == ASSUME BTypeOK, [BNext]_bvars, faults # 0 PROVE UInv'
<1>1. faults \in Nat /\ (faults' = faults \/ faults' = faults + 1)
  BY DEF BTypeOK, BNext, bvars, Send, LockExpires, Receive, Begin, Process, Complete, DeadLetter,
     GiveUpBatch, CallFails, PodDies
<1>2. faults' # 0
  BY <1>1
<1> QED BY <1>2 DEF UInv, Unfailed, NoCheckoutLostUnfailed

(* A settlement takes one message out of a pump's hands; a message dead-      *)
(* lettered for a call that threw has its order or is not well-formed.        *)
LEMMA SettleUStep ==
  ASSUME BInv, UInv, TypeOK, faults = 0, NEW w \in Worker,
         Complete(w) \/ DeadLetter(w) \/ GiveUpBatch(w)
  PROVE  UInv'
<1>1. CASE Fault
  BY <1>1, FaultStep DEF BInv
<1>2. CASE ~Fault
  <2> PICK m \in BusMessage : m = cur[w] /\ m # None
    BY DEF Complete, DeadLetter, GiveUpBatch, BInv, BTypeOK
  <2>1. HandsHoldLocks /\ LocksAreHeld /\ ThrowsForAReason /\ HoldsLock(w)
    BY DEF UInv, Unfailed, HandsHoldLocks, HoldsLock
  <2>2. \E s \in {"completed", "dead"} :
          /\ Settle(w, s) /\ UNCHANGED <<batch, faults>>
          /\ s = "dead" => pc[w] = "fail"
    BY <1>2, <2>1 DEF Complete, DeadLetter, GiveUpBatch
  <2>3. PICK s \in {"completed", "dead"} :
          /\ Settle(w, s) /\ UNCHANGED <<batch, faults>>
          /\ s = "dead" => pc[w] = "fail"
    BY <2>2
  <2>4. /\ state' = [state EXCEPT ![m] = s] /\ holder' = [holder EXCEPT ![m] = None]
        /\ cur' = [cur EXCEPT ![w] = None] /\ pc' = [pc EXCEPT ![w] = "idle"]
        /\ orders' = orders /\ UNCHANGED <<batch, faults>>
    BY <2>3 DEF Settle, Return, Goto, dbVars
  <2>5. \A v \in Worker : m \notin batch[v] /\ (v # w => cur[v] # m)
    BY <2>1 DEF HandsHoldLocks, BInv, BTypeOK
  <2>6. HandsHoldLocks'
    BY <2>1, <2>4, <2>5 DEF HandsHoldLocks, BInv, BTypeOK
  <2>7. LocksAreHeld'
    BY <2>1, <2>4, <2>5 DEF LocksAreHeld, BInv, BTypeOK
  <2>8. ThrowsForAReason'
    BY <2>1, <2>4 DEF ThrowsForAReason, HasOrder, BInv, BTypeOK, TypeOK
  <2>9. NoCheckoutLostUnfailed'
    <3>1. s = "dead" /\ Carries[m].msg \in Balanced => HasOrder(m)
      BY <2>1, <2>3 DEF ThrowsForAReason
    <3> QED BY <2>4, <3>1 DEF UInv, NoCheckoutLostUnfailed, HasOrder, BInv, BTypeOK
  <2> QED BY <2>6, <2>7, <2>8, <2>9 DEF UInv, Unfailed
<1> QED BY <1>1, <1>2

(* A call that throws by itself was not well-formed, lost the race for the    *)
(* correlation id, or was not told of its own commit.                         *)
LEMMA ThrownCall ==
  ASSUME BInv, IInv, [Next]_vars, NEW w \in Worker, Process(w),
         cur[w] # None, pc'[w] = "fail", Carries[cur[w]].msg \in Balanced
  PROVE  HasOrder(cur[w])'
<1>1. UNCHANGED cur /\ Work(w) /\ orders \subseteq orders'
  BY FinalStep DEF Process
<1>2. req[w] = Carries[cur[w]] /\ req[w].msg \in Balanced
  BY DEF BInv, CallIsOfMessage
<1>3. \E o \in orders' : Corr[o.msg] = Corr[Carries[cur[w]].msg]
  <2>1. CASE Commit(w)
    <3>1. [id |-> ord[w], msg |-> req[w].msg] \in orders'
      BY <2>1 DEF Commit
    <3> QED BY <1>2, <3>1
  <2>2. CASE DuplicateCorrelation(w)
    BY <1>1, <1>2, <2>2 DEF DuplicateCorrelation, CorrTaken, CorrOf
  <2>3. CASE ~Commit(w) /\ ~DuplicateCorrelation(w)
    BY <1>1, <1>2, <2>3 DEF Work, LookupHit, LookupMiss, RecheckHit, RecheckMiss,
       InsertOrder, SaveKey, Emit, AnswerExisting, Goto, IInv, TypeOK
  <2> QED BY <2>1, <2>2, <2>3
<1> QED BY <1>1, <1>3 DEF HasOrder

(* So while nothing has failed its message has an order. *)
LEMMA ProcessUStep ==
  ASSUME BInv, UInv, IInv, [Next]_vars, faults = 0, NEW w \in Worker, Process(w)
  PROVE  UInv'
<1>1. UNCHANGED <<state, holder, delivered, batch, cur, faults>> /\ Work(w)
  BY DEF Process
<1>2. HandsHoldLocks' /\ LocksAreHeld'
  BY <1>1 DEF UInv, Unfailed, HandsHoldLocks, LocksAreHeld
<1>3. orders \subseteq orders'
  BY FinalStep
<1>4. NoCheckoutLostUnfailed'
  BY <1>1, <1>3, HasOrderStays DEF UInv, NoCheckoutLostUnfailed
<1>5. cur[w] # None /\ pc'[w] = "fail" /\ Carries[cur[w]].msg \in Balanced => HasOrder(cur[w])'
  BY <1>1, ThrownCall
<1>6. \A v \in Worker \ {w} : pc'[v] = pc[v]
  BY <1>1 DEF Work, LookupHit, LookupMiss, RecheckHit, RecheckMiss, InsertOrder,
     DuplicateCorrelation, SaveKey, Commit, Emit, Throw, AnswerExisting, Goto, IInv, TypeOK
<1>7. ThrowsForAReason'
  <2> SUFFICES ASSUME NEW v \in Worker, cur[v] # None, pc'[v] = "fail",
                      Carries[cur[v]].msg \in Balanced
               PROVE  \E o \in orders' : Corr[o.msg] = Corr[Carries[cur[v]].msg]
    BY <1>1 DEF ThrowsForAReason, HasOrder
  <2>1. CASE v = w
    BY <1>1, <1>5, <2>1 DEF HasOrder
  <2>2. CASE v # w
    BY <1>3, <1>6, <2>2 DEF UInv, Unfailed, ThrowsForAReason, HasOrder
  <2> QED BY <2>1, <2>2
<1> QED BY <1>2, <1>4, <1>7 DEF UInv, Unfailed

(* Every step of the pump keeps what holds while nothing has failed. *)
LEMMA NextUInv == BInv /\ IInv /\ UInv /\ [BNext]_bvars => UInv'
<1> SUFFICES ASSUME BInv, IInv, UInv, [BNext]_bvars PROVE UInv'
  OBVIOUS
<1>1. BTypeOK /\ TypeOK /\ [Next]_vars
  BY PumpStep DEF BInv, IInv
<1>2. CASE faults # 0
  BY <1>1, <1>2, AfterFault
<1>3. CASE faults = 0
  <2>1. CASE UNCHANGED bvars
    <3>1. UNCHANGED <<orders, pc, state, holder, batch, cur, faults>>
      BY <2>1 DEF bvars, vars
    <3> QED BY <3>1 DEF UInv, Unfailed, HandsHoldLocks, LocksAreHeld, ThrowsForAReason,
               NoCheckoutLostUnfailed, HasOrder
  <2>2. ASSUME NEW w \in Worker, CallFails(w) \/ PodDies(w) PROVE UInv'
    BY <1>1, <2>2, FaultStep DEF CallFails, PodDies
  <2> QED BY <1>1, <1>3, <2>1, <2>2, MessageUStep, ReceiveUStep, BeginUStep, SettleUStep,
             ProcessUStep DEF BNext
<1> QED BY <1>2, <1>3

(* Until something fails, no well-formed checkout is dead-lettered without an *)
(* order, however copies of it race.                                          *)
THEOREM NoCheckoutLostUnfailedHolds == BSpec => []NoCheckoutLostUnfailed
<1>1. BInit => IInv
  BY InitIInv DEF BInit
<1>2. UInv => NoCheckoutLostUnfailed
  BY DEF UInv
<1> QED BY <1>1, <1>2, InitBInv, NextBInv, InitUInv, NextUInv, PTL DEF BSpec

-------------------------------------------------------------------------------
(* After failures: a call that threw did so because a query failed, or as     *)
(* without failures.                                                          *)
ThrowsHaveCause == \A w \in Worker :
  cur[w] # None /\ pc[w] = "fail" /\ Carries[cur[w]].msg \in Balanced
    => HasOrder(cur[w]) \/ cur[w] \in failed

DInv == ThrowsHaveCause /\ DeadLetterHasCause

(* A step that dead-letters nothing, or only with a cause, keeps the second. *)
LEMMA DeadStep ==
  ASSUME DInv, BTypeOK, BTypeOK', orders \subseteq orders', failed \subseteq failed',
         \A b \in BusMessage : delivered'[b] = delivered[b] \/ state'[b] # "dead",
         \A b \in BusMessage :
           state'[b] = "dead" /\ Carries[b].msg \in Balanced =>
             state[b] = "dead" \/ HasOrder(b) \/ b \in failed \/ delivered[b] >= MaxDelivery
  PROVE  DeadLetterHasCause'
<1> SUFFICES ASSUME NEW b \in BusMessage, state'[b] = "dead", Carries[b].msg \in Balanced
             PROVE  HasOrder(b)' \/ b \in failed' \/ delivered'[b] >= MaxDelivery
  BY DEF DeadLetterHasCause
<1>1. HasOrder(b) \/ b \in failed \/ delivered[b] >= MaxDelivery
  BY DEF DInv, DeadLetterHasCause
<1> QED BY <1>1, HasOrderStays

(* A step that leaves calls and messages in their hands alone keeps the first. *)
LEMMA ThrowsStep ==
  ASSUME DInv, orders \subseteq orders', failed \subseteq failed',
         \A w \in Worker : \/ cur'[w] = None \/ pc'[w] # "fail"
                           \/ cur'[w] = cur[w] /\ pc'[w] = pc[w]
                           \/ HasOrder(cur[w])' \/ cur'[w] \in failed'
  PROVE  ThrowsHaveCause'
<1> SUFFICES ASSUME NEW w \in Worker, cur'[w] # None, pc'[w] = "fail",
                    Carries[cur'[w]].msg \in Balanced
             PROVE  HasOrder(cur[w])' \/ cur'[w] \in failed'
  BY DEF ThrowsHaveCause
<1>1. CASE cur'[w] = cur[w] /\ pc'[w] = pc[w]
  <2>1. HasOrder(cur[w]) \/ cur[w] \in failed
    BY <1>1 DEF DInv, ThrowsHaveCause
  <2> QED BY <1>1, <2>1 DEF HasOrder
<1> QED BY <1>1

(* Every step of the pump keeps both. *)
LEMMA NextDInv ==
  ASSUME BInv, BInv', IInv, DInv, [BNext]_bvars
  PROVE  DInv'
<1>1. BTypeOK /\ BTypeOK' /\ TypeOK /\ AnswersAreCommitted /\ [Next]_vars
  BY PumpStep DEF BInv, IInv
<1>2. orders \subseteq orders'
  BY <1>1, FinalStep DEF BInv
<1> USE <1>1, <1>2 DEF DInv
<1>3. ASSUME NEW b \in BusMessage, Send(b) \/ LockExpires(b) PROVE DInv'
  <2>1. UNCHANGED <<pc, cur, failed, delivered>>
    BY <1>3 DEF Send, LockExpires, vars
  <2>2. \A c \in BusMessage : state'[c] = "dead" => state[c] = "dead" \/ delivered[c] >= MaxDelivery
    BY <1>3 DEF Send, LockExpires, BTypeOK
  <2> QED BY <2>1, <2>2, DeadStep, ThrowsStep
<1>4. ASSUME NEW w \in Worker, Receive(w) PROVE DInv'
  <2>1. UNCHANGED <<pc, cur, failed>>
    BY <1>4 DEF Receive, vars
  <2>2. \A c \in BusMessage : /\ state'[c] = "dead" => state[c] = "dead"
                              /\ delivered'[c] = delivered[c] \/ state'[c] # "dead"
    BY <1>4 DEF Receive, BTypeOK
  <2> QED BY <2>1, <2>2, DeadStep, ThrowsStep
<1>5. ASSUME NEW w \in Worker, Begin(w) PROVE DInv'
  <2>1. /\ UNCHANGED <<state, delivered, failed>> /\ pc'[w] = "lookup"
        /\ \A v \in Worker \ {w} : cur'[v] = cur[v] /\ pc'[v] = pc[v]
    BY <1>5 DEF Begin, Start, Goto, BTypeOK, TypeOK
  <2> QED BY <2>1, DeadStep, ThrowsStep
<1>6. ASSUME NEW w \in Worker, Complete(w) \/ DeadLetter(w) \/ GiveUpBatch(w) PROVE DInv'
  <2>1. PICK m \in BusMessage : m = cur[w] /\ m # None
    BY <1>6 DEF Complete, DeadLetter, GiveUpBatch, BTypeOK
  <2>2. /\ pc[w] \in {"reply", "fail"} /\ UNCHANGED <<delivered, failed>> /\ cur'[w] = None
        /\ \A v \in Worker \ {w} : cur'[v] = cur[v] /\ pc'[v] = pc[v]
    BY <1>6 DEF Complete, DeadLetter, GiveUpBatch, Settle, Return, Goto, BTypeOK, TypeOK
  <2>3. \/ state' = state \/ state' = [state EXCEPT ![m] = "dead"]
        \/ state' = [state EXCEPT ![m] = "completed"]
    BY <1>6, <2>1 DEF Complete, DeadLetter, GiveUpBatch, Settle
  <2>4. Carries[m].msg \in Balanced => HasOrder(m) \/ m \in failed
    BY <2>1, <2>2, AnswerIsOrder DEF ThrowsHaveCause
  <2>5. \A b \in BusMessage : state'[b] = "dead" /\ Carries[b].msg \in Balanced =>
          state[b] = "dead" \/ HasOrder(b) \/ b \in failed
    BY <2>3, <2>4 DEF BTypeOK
  <2> QED BY <2>2, <2>5, DeadStep, ThrowsStep
<1>7. ASSUME NEW w \in Worker, Process(w) PROVE DInv'
  <2>1. UNCHANGED <<state, delivered, failed, cur>> /\ Work(w)
    BY <1>7 DEF Process
  <2>2. \A v \in Worker \ {w} : pc'[v] = pc[v]
    BY <2>1 DEF Work, LookupHit, LookupMiss, RecheckHit, RecheckMiss, InsertOrder,
       DuplicateCorrelation, SaveKey, Commit, Emit, Throw, AnswerExisting, Goto, TypeOK
  <2>3. cur[w] # None /\ pc'[w] = "fail" /\ Carries[cur[w]].msg \in Balanced => HasOrder(cur[w])'
    BY <1>7, ThrownCall
  <2>4. ThrowsHaveCause'
    BY <2>1, <2>2, <2>3, HasOrderStays DEF ThrowsHaveCause, HasOrder
  <2> QED BY <2>1, <2>4, DeadStep
<1>8. ASSUME NEW w \in Worker, CallFails(w) PROVE DInv'
  <2>1. /\ UNCHANGED <<state, delivered, cur>> /\ failed' = failed \cup {cur[w]}
        /\ \A v \in Worker \ {w} : pc'[v] = pc[v]
    BY <1>8 DEF CallFails, Abort, Throw, Goto, TypeOK
  <2> QED BY <2>1, DeadStep, ThrowsStep
<1>9. ASSUME NEW w \in Worker, PodDies(w) PROVE DInv'
  <2>1. /\ UNCHANGED <<state, delivered, failed>> /\ cur'[w] = None
        /\ \A v \in Worker \ {w} : cur'[v] = cur[v] /\ pc'[v] = pc[v]
    BY <1>9, PumpPerPod DEF PodDies, Restart, BTypeOK, TypeOK
  <2> QED BY <2>1, DeadStep, ThrowsStep
<1>10. CASE UNCHANGED bvars
  BY <1>10 DEF bvars, vars, ThrowsHaveCause, DeadLetterHasCause, HasOrder
<1> QED BY <1>3, <1>4, <1>5, <1>6, <1>7, <1>8, <1>9, <1>10 DEF BNext

(* Whatever fails, no well-formed checkout is dead-lettered without an order  *)
(* for what befell another message or another pump.                           *)
THEOREM DeadLetterHasCauseHolds == BSpec => []DeadLetterHasCause
<1>1. BInit => IInv
  BY InitIInv DEF BInit
<1>2. BInit => DInv
  BY DEF BInit, DInv, ThrowsHaveCause, DeadLetterHasCause
<1>3. DInv => DeadLetterHasCause
  BY DEF DInv
<1> QED BY <1>1, <1>2, <1>3, InitBInv, NextBInv, NextDInv, PTL DEF BSpec
===============================================================================
