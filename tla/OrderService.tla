----------------------------- MODULE OrderService -----------------------------
(***************************************************************************)
(* order-svc: OrderService.createOrderFromCheckout, called concurrently by *)
(* the workers of several replicas (Kafka listener, Service Bus pump,      *)
(* internal HTTP endpoint) over one Postgres database, and the OrderCreated*)
(* publication that follows the transaction.                               *)
(*                                                                         *)
(* Postgres runs the transaction at READ COMMITTED: a read sees committed  *)
(* rows only, an INSERT into a unique index waits for an uncommitted row   *)
(* with the same value and then fails if that row was committed.  The rows *)
(* a transaction has written are therefore kept with its worker (ord, pc)  *)
(* until Commit moves them into orders and processed.                      *)
(***************************************************************************)
EXTENDS Naturals

CONSTANTS Replica,    \* pods of the deployment
          Worker,     \* concurrent callers of createOrderFromCheckout
          Home,       \* Home[w] is the replica worker w runs in
          Msg,        \* CheckoutPayload values: user, cart and lines
          CorrId,     \* correlation ids
          Corr,       \* Corr[m] is body.correlationId
          Balanced,   \* messages whose productIds and quantities have one length
          Key,        \* idempotency keys: correlation ids and broker message ids
          Request,    \* the (message, key) pairs the listeners may call with
          OrderId,    \* generated order uuids
          MaxCopies,  \* copies one send may leave in the topic, one for each attempt
          None        \* null

ASSUME HomeType == Home \in [Worker -> Replica]
ASSUME CorrType == Corr \in [Msg -> CorrId]
ASSUME RequestType == Request \subseteq [msg : Msg, key : Key]
ASSUME CopiesType == MaxCopies \in Nat
ASSUME NoneIsNull == None \notin OrderId /\ None \notin Request /\ None \notin Msg
(* A key is the message's correlation id (Kafka key, HTTP) or the id of one *)
(* broker message (Service Bus), so it never stands for two checkouts.      *)
ASSUME KeyMeansOneCorrelation ==
         \A r, s \in Request : r.key = s.key => Corr[r.msg] = Corr[s.msg]

VARIABLES orders,     \* committed rows of orders, each with its lines: [id, msg]
          processed,  \* committed rows of processed_events: key -> orderId or null
          events,     \* copies of OrderCreated in the topic, per order id
          ready,      \* OrderCreatedPublisherService.ready of each replica
          pc,         \* next step of each worker
          req,        \* the arguments of its call
          ord         \* the Order it holds: its own uncommitted row, or the answer

dbVars == <<orders, processed>>
vars == <<orders, processed, events, ready, pc, req, ord>>

(* A worker that has inserted its order row and not yet ended its transaction. *)
InsertedAt == {"save", "commit"}
InTx == {"recheck", "insert"} \cup InsertedAt
Label == {"idle", "lookup", "emit", "reply", "fail"} \cup InTx

Row == [id : OrderId, msg : Msg]

Init == /\ orders = {}
        /\ processed = [k \in Key |-> None]
        /\ events = [i \in OrderId |-> 0]
        /\ ready \in [Replica -> BOOLEAN]
        /\ pc = [w \in Worker |-> "idle"]
        /\ req = [w \in Worker |-> None]
        /\ ord = [w \in Worker |-> None]

-------------------------------------------------------------------------------
(* A definition whose name ends in Bug is the next one with a plausible mistake *)
(* in it; no action uses it.  The README says which property each would break.  *)

Goto(w, l) == pc' = [pc EXCEPT ![w] = l]

(* processed.findOne, then findOne of the order it names: both rows committed. *)
Hit(w) == \E o \in orders : o.id = processed[req[w].key]

CorrOf(w) == Corr[req[w].msg]

(* Unique-index waits: another transaction holds an uncommitted row. *)
CorrHeldBug(w) == FALSE              \* the insert does not wait

CorrHeld(w) == \E v \in Worker \ {w} : pc[v] \in InsertedAt /\ CorrOf(v) = CorrOf(w)
KeyHeld(w) == \E v \in Worker \ {w} : pc[v] = "commit" /\ req[v].key = req[w].key

CorrTakenBug(w) == \E o \in orders : o.msg = req[w].msg   \* unique cartId instead

CorrTaken(w) == \E o \in orders : Corr[o.msg] = CorrOf(w)

(* A uuid no committed or uncommitted row has. *)
Fresh(i) == /\ \A o \in orders : o.id # i
            /\ \A v \in Worker : pc[v] \in InsertedAt => ord[v] # i

Start(w, r) == /\ pc[w] = "idle"
               /\ Goto(w, "lookup")
               /\ req' = [req EXCEPT ![w] = r]
               /\ UNCHANGED <<dbVars, events, ready, ord>>

AnswerExistingBug(w) == /\ ord' = [ord EXCEPT ![w] = processed[req[w].key]]
                        /\ Goto(w, "emit")      \* publishes for a redelivery too
                        /\ UNCHANGED <<dbVars, events, ready, req>>

AnswerExisting(w) == /\ ord' = [ord EXCEPT ![w] = processed[req[w].key]]
                     /\ Goto(w, "reply")
                     /\ UNCHANGED <<dbVars, events, ready, req>>

LookupHit(w) == pc[w] = "lookup" /\ Hit(w) /\ AnswerExisting(w)

LookupMiss(w) == /\ pc[w] = "lookup"
                 /\ ~Hit(w)
                 /\ Goto(w, IF req[w].msg \in Balanced THEN "recheck" ELSE "fail")
                 /\ UNCHANGED <<dbVars, events, ready, req, ord>>

RecheckHit(w) == pc[w] = "recheck" /\ Hit(w) /\ AnswerExisting(w)

RecheckMiss(w) == /\ pc[w] = "recheck"
                  /\ ~Hit(w)
                  /\ Goto(w, "insert")
                  /\ UNCHANGED <<dbVars, events, ready, req, ord>>

(* save(newOrder) and save(lineEntities). *)
InsertOrder(w) == /\ pc[w] = "insert"
                  /\ ~CorrHeld(w)
                  /\ ~CorrTaken(w)
                  /\ \E i \in OrderId : Fresh(i) /\ ord' = [ord EXCEPT ![w] = i]
                  /\ Goto(w, "save")
                  /\ UNCHANGED <<dbVars, events, ready, req>>

(* The rolled-back transaction leaves nothing behind; the call throws. *)
Throw(w) == /\ Goto(w, "fail")
            /\ ord' = [ord EXCEPT ![w] = None]
            /\ UNCHANGED <<dbVars, events, ready, req>>

DuplicateCorrelationBug(w) == /\ pc[w] = "insert"
                              /\ CorrTaken(w)
                              /\ UNCHANGED vars   \* retries the insert

DuplicateCorrelation(w) == /\ pc[w] = "insert"
                           /\ ~CorrHeld(w)
                           /\ CorrTaken(w)
                           /\ Throw(w)

(* procRepo.save: TypeORM looks the key up and inserts or updates.  The row is *)
(* never there (SaveNeverOverwrites below), so the INSERT is what happens; it   *)
(* waits for an uncommitted row with the same key.                              *)
SaveKeyBug(w) == /\ pc[w] = "save"
                 /\ ~KeyHeld(w)
                 /\ Goto(w, "emit")            \* publishes inside the transaction
                 /\ UNCHANGED <<dbVars, events, ready, req, ord>>

SaveKey(w) == /\ pc[w] = "save"
              /\ ~KeyHeld(w)
              /\ Goto(w, "commit")
              /\ UNCHANGED <<dbVars, events, ready, req, ord>>

(* The database ends the transaction.  The client learns of it, or loses the *)
(* connection first: then the call throws although the rows are there.       *)
CommitBug(w) == /\ pc[w] = "commit"
                /\ orders' = orders \cup {[id |-> ord[w], msg |-> req[w].msg]}
                /\ UNCHANGED processed         \* the key is saved elsewhere
                /\ Goto(w, "emit") \/ Goto(w, "fail")
                /\ UNCHANGED <<events, ready, req, ord>>

Commit(w) == /\ pc[w] = "commit"
             /\ orders' = orders \cup {[id |-> ord[w], msg |-> req[w].msg]}
             /\ processed' = [processed EXCEPT ![req[w].key] = ord[w]]
             /\ Goto(w, "emit") \/ Goto(w, "fail")
             /\ UNCHANGED <<events, ready, req, ord>>

(* A query, or the connection, fails before the commit. *)
Abort(w) == pc[w] \in InTx \cup {"lookup"} /\ Throw(w)

(* publishOrderCreated: nothing when the producer is not ready; otherwise the *)
(* send fails or is stored, once for each attempt whose acknowledgement was   *)
(* lost.  Errors are only logged, so the call goes on to its answer always.   *)
EmitRetryBug(w) == /\ pc[w] = "emit"
                   /\ \E n \in IF ready[Home[w]] THEN 0..MaxCopies ELSE {0} :
                        events' = [events EXCEPT ![ord[w]] = @ + n]
                   /\ Goto(w, "reply") \/ Goto(w, "emit")    \* sends again after an error
                   /\ UNCHANGED <<dbVars, ready, req, ord>>

EmitUndoBug(w) == /\ pc[w] = "emit"
                  /\ orders' = {o \in orders : o.id # ord[w]}  \* undoes an unpublished order
                  /\ Goto(w, "reply")
                  /\ UNCHANGED <<processed, events, ready, req, ord>>

Emit(w) == /\ pc[w] = "emit"
           /\ \E n \in IF ready[Home[w]] THEN 0..MaxCopies ELSE {0} :
                events' = [events EXCEPT ![ord[w]] = @ + n]
           /\ Goto(w, "reply")
           /\ UNCHANGED <<dbVars, ready, req, ord>>

(* The caller has the answer (pc = "reply") or the error (pc = "fail"). *)
Return(w) == /\ pc[w] \in {"reply", "fail"}
             /\ Goto(w, "idle")
             /\ req' = [req EXCEPT ![w] = None]
             /\ ord' = [ord EXCEPT ![w] = None]
             /\ UNCHANGED <<dbVars, events, ready>>

(* A pod dies: its calls are gone, Postgres rolls their transactions back, and *)
(* the producer of the new pod connects once, at start, or stays unready.      *)
Restart(r) == /\ pc' = [w \in Worker |-> IF Home[w] = r THEN "idle" ELSE pc[w]]
              /\ req' = [w \in Worker |-> IF Home[w] = r THEN None ELSE req[w]]
              /\ ord' = [w \in Worker |-> IF Home[w] = r THEN None ELSE ord[w]]
              /\ \E b \in BOOLEAN : ready' = [ready EXCEPT ![r] = b]
              /\ UNCHANGED <<dbVars, events>>

(* The steps of one call that need no outside event. *)
Work(w) == \/ LookupHit(w) \/ LookupMiss(w) \/ RecheckHit(w) \/ RecheckMiss(w)
           \/ InsertOrder(w) \/ DuplicateCorrelation(w)
           \/ SaveKey(w) \/ Commit(w) \/ Emit(w)

Next == \/ \E w \in Worker : \/ Work(w) \/ Abort(w) \/ Return(w)
                             \/ \E r \in Request : Start(w, r)
        \/ \E r \in Replica : Restart(r)

Spec == Init /\ [][Next]_vars

-------------------------------------------------------------------------------
TypeOK == /\ orders \subseteq Row
          /\ processed \in [Key -> OrderId \cup {None}]
          /\ events \in [OrderId -> 0..MaxCopies]
          /\ ready \in [Replica -> BOOLEAN]
          /\ pc \in [Worker -> Label]
          /\ req \in [Worker -> Request \cup {None}]
          /\ ord \in [Worker -> OrderId \cup {None}]

(* However many deliveries of a checkout race through the look-ups, one order  *)
(* is committed for its correlation id.                                         *)
OneOrderPerCorrelation ==
  \A o, p \in orders : o.id = p.id \/ Corr[o.msg] = Corr[p.msg] => o = p

(* A processed key names a committed order of the checkout the key belongs to,  *)
(* so a redelivery is never answered with somebody else's order (lines 34-41,   *)
(* 50-58 rely on it); and every order is named by some key, so a redelivery of  *)
(* its message finds it.                                                        *)
KeysAndOrdersAgree ==
  /\ \A r \in Request : processed[r.key] # None =>
       \E o \in orders : o.id = processed[r.key] /\ Corr[o.msg] = Corr[r.msg]
  /\ \A o \in orders : \E k \in Key : processed[k] = o.id

(* A transaction that has inserted its order is alone on its correlation id and *)
(* finds its key unclaimed: the upsert of processed_events (81-84) never takes  *)
(* a key away from an earlier order.                                            *)
SaveNeverOverwrites ==
  \A w \in Worker : pc[w] \in InsertedAt =>
    /\ processed[req[w].key] = None
    /\ ~CorrHeld(w) /\ ~CorrTaken(w)

(* Between its flag shouldEmitOrderCreated and the send, a call is the only one *)
(* that will ever publish its order: the order is committed, no event about it  *)
(* exists and no other call is about to send one.  Events never name a row that *)
(* was rolled back.                                                             *)
OnePublisherPerOrder ==
  /\ \A w \in Worker : pc[w] = "emit" =>
       /\ events[ord[w]] = 0
       /\ \A v \in Worker \ {w} : pc[v] = "emit" => ord[v] # ord[w]
  /\ \A i \in OrderId : events[i] > 0 => \E o \in orders : o.id = i

(* Every answer is a committed order of the checkout the caller asked for.      *)
AnswersAreCommitted ==
  \A w \in Worker : pc[w] \in {"emit", "reply"} =>
    \E o \in orders : o.id = ord[w] /\ Corr[o.msg] = CorrOf(w)

(* No step of any call removes or rewrites an order or rebinds a processed key. *)
RowsAreFinal == [][/\ orders \subseteq orders'
                   /\ \A k \in Key : processed[k] # None => processed'[k] = processed[k]]_vars

(* Transactions wait for each other on two indexes, yet no wait lasts: every    *)
(* call ends with an answer or an error, when the event loop runs every call    *)
(* that can move and a waiting INSERT is woken when the holder ends.            *)
EveryCallEnds == \A w \in Worker : pc[w] # "idle" ~> pc[w] = "idle"

-------------------------------------------------------------------------------
(* The order book the tables stand for. *)
OrderOf(c) == {o \in orders : Corr[o.msg] = c}
BookOf == [c \in CorrId |-> IF OrderOf(c) = {} THEN None ELSE (CHOOSE o \in OrderOf(c) : TRUE).msg]
CopiesOf == [c \in CorrId |-> IF OrderOf(c) = {} THEN 0
                              ELSE events[(CHOOSE o \in OrderOf(c) : TRUE).id]]

Book == INSTANCE OrderBook WITH NoMsg <- None, book <- BookOf, copies <- CopiesOf

(* order-svc implements the order book. *)
ImplementsOrderBook == Book!Spec
===============================================================================
