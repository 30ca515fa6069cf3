----------------------------- MODULE ShopCheckout -----------------------------
(***************************************************************************)
(* shop-svc: the cart kept in Redis, the read-modify-write of addToCart,   *)
(* and the checkout handler (snapshot, publish, clear), run by the calls   *)
(* of several users on several pods.  Every await is a step of its own; at *)
(* each one the call may end in an error (a failing command, a timeout, a  *)
(* pod that dies), which for Redis and the broker says nothing about       *)
(* whether the command took effect.                                        *)
(***************************************************************************)
EXTENDS Naturals, FiniteSets

CONSTANTS User,
          Product,
          Call,        \* requests in progress at a time
          Pod,
          CartId,      \* cart uuids
          CorrId,      \* correlation ids, from the client or fresh
          Transport,   \* CHECKOUT_TRANSPORT
          HasBrokers,  \* KAFKA_BROKERS is set
          HasBus,      \* SERVICEBUS_CONNECTION_STRING is set
          MaxQty,      \* bound: quantity of one request
          MaxAdds      \* bound: addToCart requests

ASSUME TransportType == Transport \in {"auto", "http", "servicebus", "kafka"}
ASSUME EnvType == HasBrokers \in BOOLEAN /\ HasBus \in BOOLEAN
ASSUME BoundsType == MaxQty \in Nat \ {0} /\ MaxAdds \in Nat

VARIABLES cart,       \* the value at cart:<user>, as a quantity per product
          pc,         \* next step of each call
          call,       \* its arguments and what it has read
          kafkaReady, \* CheckoutPublisherService.kafkaReady of each pod
          published,  \* CheckoutRequested messages that reached order-svc's inbox
          adds,       \* addToCart requests so far
          added,      \* history: what addToCart has written for each user
          expired,    \* history: what the seven-day expiry took
          ordered     \* history: the items of all the user's messages

vars == <<cart, pc, call, kafkaReady, published, adds, added, expired, ordered>>
histVars == <<added, expired, ordered>>

Quantity == 0..(MaxQty * MaxAdds)
Cart == [Product -> Quantity]
Empty == [p \in Product |-> 0]
Plus(c, d) == [p \in Product |-> c[p] + d[p]]

Message == [cartId : CartId, corr : CorrId, user : User, items : Cart,
            via : {"kafka", "servicebus", "http"}]
Idle == [user |-> "none"]

Init == /\ cart = [u \in User |-> Empty]
        /\ pc = [c \in Call |-> "idle"]
        /\ call = [c \in Call |-> Idle]
        /\ kafkaReady \in [Pod -> IF HasBrokers THEN BOOLEAN ELSE {FALSE}]
        /\ published = {}
        /\ adds = 0
        /\ added = cart /\ expired = cart /\ ordered = cart

-------------------------------------------------------------------------------
Begin(c, l, rec) == /\ pc[c] = "idle"
                    /\ pc' = [pc EXCEPT ![c] = l]
                    /\ call' = [call EXCEPT ![c] = rec]

Goto(c, l) == pc' = [pc EXCEPT ![c] = l]
End(c) == Goto(c, "idle") /\ call' = [call EXCEPT ![c] = Idle]

(* POST /cart/items, qty >= 1.  A quantity below one is refused at once. *)
AddToCart(c, u, p, q) ==
  /\ adds < MaxAdds
  /\ adds' = adds + 1
  /\ Begin(c, "product", [user |-> u, product |-> p, qty |-> q, seen |-> Empty])
  /\ UNCHANGED <<cart, kafkaReady, published, histVars>>

(* getProduct; a product that is not there ends the call like any error. *)
GetProduct(c) == /\ pc[c] = "product"
                 /\ Goto(c, "get")
                 /\ UNCHANGED <<cart, call, kafkaReady, published, adds, histVars>>

GetCart(c) == /\ pc[c] = "get"
              /\ call' = [call EXCEPT ![c].seen = cart[call[c].user]]
              /\ Goto(c, "set")
              /\ UNCHANGED <<cart, kafkaReady, published, adds, histVars>>

SetCartBug(c) ==   \* the quantity is added again by a retried command
  /\ pc[c] = "set"
  /\ LET u == call[c].user
         line == [Empty EXCEPT ![call[c].product] = call[c].qty]
     IN /\ cart' = [cart EXCEPT ![u] = Plus(Plus(call[c].seen, line), line)]
        /\ added' = [added EXCEPT ![u] = Plus(@, line)]
  /\ End(c)
  /\ UNCHANGED <<kafkaReady, published, adds, expired, ordered>>

(* The whole cart is written back: one line per product, quantities added up. *)
SetCart(c) ==
  /\ pc[c] = "set"
  /\ LET u == call[c].user
         line == [Empty EXCEPT ![call[c].product] = call[c].qty]
     IN /\ cart' = [cart EXCEPT ![u] = Plus(call[c].seen, line)]
        /\ added' = [added EXCEPT ![u] = Plus(@, line)]
  /\ End(c)
  /\ UNCHANGED <<kafkaReady, published, adds, expired, ordered>>

(* POST /checkout, with the x-correlation-id it came with or a new one. *)
Checkout(c, u, k, pod) ==
  /\ Begin(c, "snapshot", [user |-> u, corr |-> k, pod |-> pod, seen |-> Empty])
  /\ UNCHANGED <<cart, kafkaReady, published, adds, histVars>>

(* buildCheckoutPayload. *)
SnapshotCart(c) == /\ pc[c] = "snapshot"
                   /\ cart[call[c].user] # Empty
                   /\ call' = [call EXCEPT ![c].seen = cart[call[c].user]]
                   /\ Goto(c, "publish")
                   /\ UNCHANGED <<cart, kafkaReady, published, adds, histVars>>

CartIsEmpty(c) == /\ pc[c] = "snapshot"
                  /\ cart[call[c].user] = Empty
                  /\ End(c)
                  /\ UNCHANGED <<cart, kafkaReady, published, adds, histVars>>

(* publishCheckout's choice.  "none": it throws before sending anything.  With  *)
(* CHECKOUT_TRANSPORT=kafka an unconnected producer is tried all the same.      *)
Channel(pod) ==
  CASE Transport = "http" -> "http"
    [] Transport = "servicebus" -> IF HasBus THEN "servicebus" ELSE "none"
    [] Transport = "kafka" -> IF HasBrokers THEN "kafka" ELSE "none"
    [] Transport = "auto" -> IF kafkaReady[pod] THEN "kafka"
                             ELSE IF HasBus THEN "servicebus" ELSE "http"

PublishBug(c) ==   \* clears the cart even when the send fails
  /\ pc[c] = "publish"
  /\ \/ \E i \in CartId :
          /\ \A m \in published : m.cartId # i
          /\ Channel(call[c].pod) # "none"
          /\ published' = published \cup
               {[cartId |-> i, corr |-> call[c].corr, user |-> call[c].user,
                 items |-> call[c].seen, via |-> Channel(call[c].pod)]}
          /\ ordered' = [ordered EXCEPT ![call[c].user] = Plus(@, call[c].seen)]
     \/ UNCHANGED <<published, ordered>>
  /\ Goto(c, "clear")
  /\ UNCHANGED <<cart, call, kafkaReady, adds, added, expired>>

(* The message is out; the call goes on, or is told of an error all the same. *)
Publish(c) ==
  /\ pc[c] = "publish"
  /\ Channel(call[c].pod) # "none"
  /\ \E i \in CartId :
       /\ \A m \in published : m.cartId # i
       /\ published' = published \cup
            {[cartId |-> i, corr |-> call[c].corr, user |-> call[c].user,
              items |-> call[c].seen, via |-> Channel(call[c].pod)]}
  /\ ordered' = [ordered EXCEPT ![call[c].user] = Plus(@, call[c].seen)]
  /\ \/ Goto(c, "clear") /\ UNCHANGED call
     \/ End(c)
  /\ UNCHANGED <<cart, kafkaReady, adds, added, expired>>

ClearCartBug(c) == /\ pc[c] = "clear"   \* the cart is kept
                   /\ End(c)
                   /\ UNCHANGED <<cart, kafkaReady, published, adds, histVars>>

(* DEL cart:<user>, whatever the cart holds by now. *)
ClearCart(c) == /\ pc[c] = "clear"
                /\ cart' = [cart EXCEPT ![call[c].user] = Empty]
                /\ End(c)
                /\ UNCHANGED <<kafkaReady, published, adds, histVars>>

(* A step fails without effect: a missing product, a Redis, Mongo or broker     *)
(* error, the ten-second timeout, a pod that dies.                              *)
Fail(c) == /\ pc[c] # "idle"
           /\ End(c)
           /\ UNCHANGED <<cart, kafkaReady, published, adds, histVars>>

(* A pod has lost its calls (Fail) and is replaced: the new one connects its     *)
(* producer once, at start, or leaves it unready.                               *)
RestartPod(pod) == /\ HasBrokers
                   /\ \A c \in Call : pc[c] \in {"snapshot", "publish", "clear"} => call[c].pod # pod
                   /\ \E b \in BOOLEAN : kafkaReady' = [kafkaReady EXCEPT ![pod] = b]
                   /\ UNCHANGED <<cart, pc, call, published, adds, histVars>>

(* Seven days without a write: no call of that user is still in progress.       *)
Expire(u) == /\ cart[u] # Empty
             /\ \A c \in Call : pc[c] # "idle" => call[c].user # u
             /\ expired' = [expired EXCEPT ![u] = Plus(@, cart[u])]
             /\ cart' = [cart EXCEPT ![u] = Empty]
             /\ UNCHANGED <<pc, call, kafkaReady, published, adds, added, ordered>>

Work(c) == GetProduct(c) \/ GetCart(c) \/ SetCart(c)
           \/ SnapshotCart(c) \/ CartIsEmpty(c) \/ Publish(c) \/ ClearCart(c)

Next == \/ \E c \in Call :
             \/ \E u \in User : \/ \E p \in Product, q \in 1..MaxQty : AddToCart(c, u, p, q)
                                \/ \E k \in CorrId, pod \in Pod : Checkout(c, u, k, pod)
             \/ Work(c) \/ Fail(c)
        \/ \E pod \in Pod : RestartPod(pod)
        \/ \E u \in User : Expire(u)

Spec == Init /\ [][Next]_vars

-------------------------------------------------------------------------------
TypeOK == /\ cart \in [User -> Cart]
          /\ pc \in [Call -> {"idle", "product", "get", "set", "snapshot", "publish", "clear"}]
          /\ \A c \in Call : pc[c] # "idle" => call[c].user \in User /\ call[c].seen \in Cart
          /\ kafkaReady \in [Pod -> BOOLEAN]
          /\ published \subseteq Message
          /\ adds \in 0..MaxAdds

(* Interleaved requests can lose items of a cart, but never make some up: a     *)
(* cart, and so a message, holds no more of a product than its user has added.  *)
NothingFromNowhere ==
  /\ \A u \in User, p \in Product : cart[u][p] <= added[u][p]
  /\ \A m \in published, p \in Product : m.items[p] <= added[m.user][p]

(* README.md:44: auto prefers Kafka, then Service Bus, then HTTP based on which  *)
(* environment variables are present.                                            *)
AutoFollowsEnvironment ==
  Transport = "auto" =>
    \A m \in published :
      m.via = IF HasBrokers THEN "kafka" ELSE IF HasBus THEN "servicebus" ELSE "http"
===============================================================================
