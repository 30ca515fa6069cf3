--------------------------- MODULE StorefrontProofs ---------------------------
(***************************************************************************)
(* Proofs about ShopCheckout and the pages of Storefront for any users,    *)
(* products, pods, requests in progress, transports and bounds.            *)
(*                                                                         *)
(* NothingFromNowhere is not inductive: what a request has read, and goes  *)
(* on to write or to send, must be known to be below what its user has     *)
(* added, although the cart itself may have been cleared since.  The pages *)
(* drive shop-svc through the steps of ShopCheckout, and what is ordered   *)
(* is what was shown.                                                      *)
(***************************************************************************)
EXTENDS Storefront, TLAPS

Bag == [Product -> Nat]

Adding == {"product", "get", "set"}
CheckingOut == {"snapshot", "publish", "clear"}

AddRequest == [user : User, product : Product, qty : 1..MaxQty, seen : Bag]
CheckoutRequest == [user : User, corr : CorrId, pod : Pod, seen : Bag]

(* TypeOK without the bounds, and with the arguments that each step finds. *)
Shape == /\ cart \in [User -> Bag]
         /\ added \in [User -> Bag]
         /\ pc \in [Call -> {"idle"} \cup Adding \cup CheckingOut]
         /\ call \in [Call -> AddRequest \cup CheckoutRequest \cup {Idle}]
         /\ \A c \in Call : /\ pc[c] \in Adding => call[c] \in AddRequest
                            /\ pc[c] \in CheckingOut => call[c] \in CheckoutRequest
         /\ \A m \in published : m.user \in User /\ m.corr \in CorrId /\ m.items \in Bag

(* What a request has read is no more than its user has added. *)
SeenWasAdded == \A c \in Call : pc[c] # "idle" =>
                  \A p \in Product : call[c].seen[p] <= added[call[c].user][p]

IInv == Shape /\ SeenWasAdded /\ NothingFromNowhere

USE DEF Adding, CheckingOut

(* The empty cart and the sum of two are carts. *)
LEMMA Carts == /\ Empty \in Bag
               /\ \A b, d \in Bag : Plus(b, d) \in Bag
               /\ \A p \in Product, q \in Nat : [Empty EXCEPT ![p] = q] \in Bag
  BY DEF Empty, Plus, Bag

(* Two carts without an item and no requests satisfy the inductive invariant. *)
LEMMA InitIInv == Init => IInv
<1> SUFFICES ASSUME Init PROVE IInv
  OBVIOUS
<1>1. Shape
  BY Carts DEF Init, Shape
<1>2. SeenWasAdded /\ NothingFromNowhere
  BY DEF Init, SeenWasAdded, NothingFromNowhere, Empty
<1> QED BY <1>1, <1>2 DEF IInv

(* A new request comes with its arguments and has read nothing. *)
LEMMA BeginStep ==
  ASSUME IInv, NEW c \in Call, NEW l, NEW rec,
         \/ l = "product" /\ rec \in AddRequest
         \/ l = "snapshot" /\ rec \in CheckoutRequest,
         rec.seen = Empty, Begin(c, l, rec), UNCHANGED <<cart, published, added>>
  PROVE  IInv'
<1> USE DEF Begin
<1>1. Shape'
  BY DEF IInv, Shape
<1>2. SeenWasAdded'
  <2> SUFFICES ASSUME NEW d \in Call, pc'[d] # "idle", NEW p \in Product
               PROVE  call'[d].seen[p] <= added'[call'[d].user][p]
    BY DEF SeenWasAdded
  <2>1. CASE d = c
    <3>1. call'[d] = rec /\ rec.user \in User
      BY <2>1 DEF IInv, Shape, AddRequest, CheckoutRequest
    <3>2. Empty[p] = 0 /\ added[rec.user][p] \in Nat
      BY <3>1 DEF IInv, Shape, Empty, Bag
    <3> QED BY <3>1, <3>2
  <2>2. CASE d # c
    BY <2>2 DEF IInv, Shape, SeenWasAdded
  <2> QED BY <2>1, <2>2
<1>3. NothingFromNowhere'
  BY DEF IInv, NothingFromNowhere
<1> QED BY <1>1, <1>2, <1>3 DEF IInv

(* A request that moves on, or ends, with what it had keeps the invariant. *)
LEMMA MoveStep ==
  ASSUME IInv, NEW c \in Call, pc[c] # "idle", UNCHANGED <<cart, published, added>>,
         \/ End(c)
         \/ pc[c] = "product" /\ Goto(c, "get") /\ UNCHANGED call
  PROVE  IInv'
<1> USE DEF End, Goto
<1>1. Shape'
  BY DEF IInv, Shape
<1>2. SeenWasAdded'
  BY DEF IInv, Shape, SeenWasAdded
<1>3. NothingFromNowhere'
  BY DEF IInv, NothingFromNowhere
<1> QED BY <1>1, <1>2, <1>3 DEF IInv

(* A request that reads the cart of its user keeps the invariant. *)
LEMMA ReadStep ==
  ASSUME IInv, NEW c \in Call, UNCHANGED <<cart, published, added>>,
         call' = [call EXCEPT ![c].seen = cart[call[c].user]],
         \/ pc[c] = "get" /\ Goto(c, "set")
         \/ pc[c] = "snapshot" /\ Goto(c, "publish")
  PROVE  IInv'
<1> USE DEF Goto
<1>1. call[c].user \in User /\ cart[call[c].user] \in Bag
  BY DEF IInv, Shape, AddRequest, CheckoutRequest
<1>2. Shape'
  <2>1. CASE pc[c] = "get"
    <3>1. call'[c] \in AddRequest
      BY <2>1, <1>1 DEF IInv, Shape, AddRequest
    <3> QED BY <2>1, <3>1 DEF IInv, Shape
  <2>2. CASE pc[c] = "snapshot"
    <3>1. call'[c] \in CheckoutRequest
      BY <2>2, <1>1 DEF IInv, Shape, CheckoutRequest
    <3> QED BY <2>2, <3>1 DEF IInv, Shape
  <2> QED BY <2>1, <2>2
<1>3. SeenWasAdded'
  <2> SUFFICES ASSUME NEW d \in Call, pc'[d] # "idle", NEW p \in Product
               PROVE  call'[d].seen[p] <= added'[call'[d].user][p]
    BY DEF SeenWasAdded
  <2>1. CASE d = c
    <3>1. call'[d].seen = cart[call[c].user] /\ call'[d].user = call[c].user
      BY <2>1 DEF IInv, Shape, AddRequest, CheckoutRequest
    <3> QED BY <3>1, <1>1 DEF IInv, NothingFromNowhere
  <2>2. CASE d # c
    BY <2>2 DEF IInv, Shape, SeenWasAdded
  <2> QED BY <2>1, <2>2
<1>4. NothingFromNowhere'
  BY DEF IInv, NothingFromNowhere
<1> QED BY <1>2, <1>3, <1>4 DEF IInv

(* SetCart writes what it read and its line, and that line has been added. *)
LEMMA SetCartStep == ASSUME IInv, NEW c \in Call, SetCart(c) PROVE IInv'
<1> DEFINE u == call[c].user
           line == [Empty EXCEPT ![call[c].product] = call[c].qty]
<1>1. pc[c] = "set" /\ call[c] \in AddRequest /\ u \in User /\ call[c].seen \in Bag
  BY DEF SetCart, IInv, Shape, AddRequest
<1>2. line \in Bag /\ Plus(call[c].seen, line) \in Bag /\ Plus(added[u], line) \in Bag
  <2>1. call[c].product \in Product /\ call[c].qty \in Nat
    BY <1>1, BoundsType DEF AddRequest
  <2>2. line \in Bag
    BY <2>1, Carts
  <2> QED BY <1>1, <2>2, Carts DEF IInv, Shape
<1>3. /\ cart' = [cart EXCEPT ![u] = Plus(call[c].seen, line)]
      /\ added' = [added EXCEPT ![u] = Plus(added[u], line)]
      /\ End(c) /\ UNCHANGED published
  BY DEF SetCart
<1> HIDE DEF line
<1>4. Shape'
  BY <1>1, <1>2, <1>3 DEF End, Goto, IInv, Shape
<1>5. \A v \in User, p \in Product : added[v][p] \in Nat /\ added'[v][p] \in Nat /\ added[v][p] <= added'[v][p]
  <2> SUFFICES ASSUME NEW v \in User, NEW p \in Product
               PROVE added[v][p] \in Nat /\ added'[v][p] \in Nat /\ added[v][p] <= added'[v][p]
    OBVIOUS
  <2>1. added[v][p] \in Nat /\ line[p] \in Nat
    BY <1>2 DEF IInv, Shape, Bag
  <2>2. CASE v = u
    BY <2>1, <2>2, <1>3 DEF IInv, Shape, Plus
  <2>3. CASE v # u
    BY <2>1, <2>3, <1>3 DEF IInv, Shape
  <2> QED BY <2>2, <2>3
<1>6. SeenWasAdded'
  <2> SUFFICES ASSUME NEW d \in Call, pc'[d] # "idle", NEW p \in Product
               PROVE  call'[d].seen[p] <= added'[call'[d].user][p]
    BY DEF SeenWasAdded
  <2>1. d # c /\ call'[d] = call[d] /\ pc[d] # "idle"
    BY <1>3 DEF End, Goto, IInv, Shape
  <2>2. call[d].user \in User /\ call[d].seen[p] \in Nat
    BY <2>1 DEF IInv, Shape, AddRequest, CheckoutRequest, Bag
  <2>3. call[d].seen[p] <= added[call[d].user][p]
    BY <2>1 DEF IInv, SeenWasAdded
  <2> QED BY <1>5, <2>1, <2>2, <2>3
<1>7. NothingFromNowhere'
  <2>1. ASSUME NEW v \in User, NEW p \in Product PROVE cart'[v][p] <= added'[v][p]
    <3>1. CASE v = u
      <4>1. call[c].seen[p] <= added[u][p] /\ call[c].seen[p] \in Nat /\ added[u][p] \in Nat /\ line[p] \in Nat
        BY <1>1, <1>2 DEF IInv, Shape, SeenWasAdded, Bag
      <4>2. cart'[v][p] = call[c].seen[p] + line[p] /\ added'[v][p] = added[u][p] + line[p]
        BY <1>1, <1>3, <3>1 DEF IInv, Shape, Plus
      <4> QED BY <4>1, <4>2
    <3>2. CASE v # u
      BY <1>3, <3>2 DEF IInv, Shape, NothingFromNowhere
    <3> QED BY <3>1, <3>2
  <2>2. ASSUME NEW m \in published, NEW p \in Product PROVE m.items[p] <= added'[m.user][p]
    <3>1. m.items[p] <= added[m.user][p] /\ m.items[p] \in Nat /\ m.user \in User
      BY DEF IInv, Shape, NothingFromNowhere, Bag
    <3> QED BY <3>1, <1>5
  <2> QED BY <2>1, <2>2, <1>3 DEF NothingFromNowhere
<1> QED BY <1>4, <1>6, <1>7 DEF IInv

(* A message holds what its request has read. *)
LEMMA PublishStep == ASSUME IInv, NEW c \in Call, Publish(c) PROVE IInv'
<1> PICK i \in CartId : published' = published \cup
      {[cartId |-> i, corr |-> call[c].corr, user |-> call[c].user,
        items |-> call[c].seen, via |-> Channel(call[c].pod)]}
  BY DEF Publish
<1>1. pc[c] = "publish" /\ call[c] \in CheckoutRequest /\ UNCHANGED <<cart, added>>
  BY DEF Publish, IInv, Shape, histVars
<1>2. (Goto(c, "clear") /\ UNCHANGED call) \/ End(c)
  BY DEF Publish
<1>3. Shape'
  BY <1>1, <1>2 DEF End, Goto, IInv, Shape, CheckoutRequest
<1>4. SeenWasAdded'
  BY <1>1, <1>2 DEF End, Goto, IInv, Shape, SeenWasAdded
<1>5. NothingFromNowhere'
  BY <1>1 DEF IInv, SeenWasAdded, NothingFromNowhere
<1> QED BY <1>3, <1>4, <1>5 DEF IInv

(* An emptied cart is below anything. *)
LEMMA EmptyStep ==
  ASSUME IInv, NEW u \in User, cart' = [cart EXCEPT ![u] = Empty],
         UNCHANGED <<published, added>>,
         \/ UNCHANGED <<pc, call>>
         \/ \E c \in Call : End(c)
  PROVE  IInv'
<1>1. Shape'
  BY Carts DEF End, Goto, IInv, Shape
<1>2. SeenWasAdded'
  BY DEF End, Goto, IInv, Shape, SeenWasAdded
<1>3. NothingFromNowhere'
  <2>1. \A p \in Product : Empty[p] = 0 /\ added[u][p] \in Nat
    BY DEF IInv, Shape, Empty, Bag
  <2> QED BY <2>1 DEF IInv, Shape, NothingFromNowhere
<1> QED BY <1>1, <1>2, <1>3 DEF IInv

(* Every step of shop-svc keeps the inductive invariant. *)
LEMMA NextIInv == ASSUME IInv, [Next]_vars PROVE IInv'
<1> USE DEF histVars
<1>1. ASSUME NEW c \in Call, NEW u \in User, NEW p \in Product, NEW q \in 1..MaxQty, AddToCart(c, u, p, q)
      PROVE  IInv'
  <2>1. [user |-> u, product |-> p, qty |-> q, seen |-> Empty] \in AddRequest
    BY Carts DEF AddRequest
  <2> QED BY <1>1, <2>1, BeginStep DEF AddToCart
<1>2. ASSUME NEW c \in Call, NEW u \in User, NEW k \in CorrId, NEW pod \in Pod, Checkout(c, u, k, pod)
      PROVE  IInv'
  <2>1. [user |-> u, corr |-> k, pod |-> pod, seen |-> Empty] \in CheckoutRequest
    BY Carts DEF CheckoutRequest
  <2> QED BY <1>2, <2>1, BeginStep DEF Checkout
<1>3. ASSUME NEW c \in Call, Work(c) PROVE IInv'
  <2>1. CASE GetProduct(c)
    BY <2>1, MoveStep DEF GetProduct
  <2>2. CASE GetCart(c)
    BY <2>2, ReadStep DEF GetCart
  <2>3. CASE SetCart(c)
    BY <2>3, SetCartStep
  <2>4. CASE SnapshotCart(c)
    BY <2>4, ReadStep DEF SnapshotCart
  <2>5. CASE CartIsEmpty(c)
    BY <2>5, MoveStep DEF CartIsEmpty
  <2>6. CASE Publish(c)
    BY <2>6, PublishStep
  <2>7. CASE ClearCart(c)
    <3>1. call[c].user \in User
      BY <2>7 DEF ClearCart, IInv, Shape, CheckoutRequest
    <3> QED BY <2>7, <3>1, EmptyStep DEF ClearCart
  <2> QED BY <1>3, <2>1, <2>2, <2>3, <2>4, <2>5, <2>6, <2>7 DEF Work
<1>4. ASSUME NEW c \in Call, Fail(c) PROVE IInv'
  BY <1>4, MoveStep DEF Fail
<1>5. ASSUME NEW pod \in Pod, RestartPod(pod) PROVE IInv'
  BY <1>5 DEF RestartPod, IInv, Shape, SeenWasAdded, NothingFromNowhere
<1>6. ASSUME NEW u \in User, Expire(u) PROVE IInv'
  BY <1>6, EmptyStep DEF Expire
<1>7. CASE UNCHANGED vars
  BY <1>7 DEF vars, IInv, Shape, SeenWasAdded, NothingFromNowhere
<1> QED BY <1>1, <1>2, <1>3, <1>4, <1>5, <1>6, <1>7 DEF Next

(* Interleaved, failing and repeated requests never make items up, in a cart  *)
(* or in a message (shop.service.ts:54-87).                                   *)
THEOREM NothingFromNowhereHolds == Spec => []NothingFromNowhere
<1>1. IInv => NothingFromNowhere
  BY DEF IInv
<1> QED BY InitIInv, NextIInv, <1>1, PTL DEF Spec

-------------------------------------------------------------------------------
(* The pages only send requests that shop-svc takes from anyone. *)
LEMMA StepImplementsStep == SNext => [Next]_vars
<1> SUFFICES ASSUME SNext PROVE [Next]_vars
  OBVIOUS
<1>1. ASSUME NEW u \in User, NEW p \in Product, ClickAdd(u, p) PROVE Next
  <2>1. 1 \in 1..MaxQty
    BY BoundsType
  <2> QED BY <1>1, <2>1 DEF ClickAdd, Next
<1>2. ASSUME NEW u \in User, ClickCheckout(u) PROVE Next
  BY <1>2 DEF ClickCheckout, Next
<1>3. ASSUME NEW u \in User, Expire(u) PROVE Next
  BY <1>3 DEF Next
<1>4. ASSUME NEW c \in Call, Serve(c) PROVE Next
  BY <1>4 DEF Serve, Next
<1>5. ASSUME NEW pod \in Pod, RestartPod(pod) PROVE Next
  BY <1>5 DEF Next
<1>6. ASSUME NEW u \in User,
             \/ \E name \in {"products", "cart"} : Open(u, name)
             \/ CartRead(u) \/ CartShown(u) \/ CartFails(u)
             \/ \E c \in Call : Disconnect(u, c)
      PROVE  UNCHANGED vars
  BY <1>6 DEF Open, CartRead, CartShown, CartFails, Disconnect
<1> QED BY <1>1, <1>2, <1>3, <1>4, <1>5, <1>6 DEF SNext

(* Every step of the pages is one of ShopCheckout or none, so that what is    *)
(* proved of shop-svc holds under the pages too.                              *)
LEMMA StorefrontImplementsShop == SSpec => Spec
<1>1. SInit => Init
  BY DEF SInit
<1>2. [SNext]_storeVars => [Next]_vars
  BY StepImplementsStep DEF storeVars
<1> QED BY <1>1, <1>2, PTL DEF SSpec, Spec

-------------------------------------------------------------------------------
(* The pages, and what they remember of a checkout. *)
Tab == [page : {"products", "cart"}, view : {"loading", "read", "shown", "error"}, items : Bag,
        sent : SUBSET Call, latest : Call \cup {NoCall}, pending : Product \cup {NoProduct}]

TabShape == tab \in [User -> Tab] /\ shownAt \in [CorrId -> Bag]

(* A user whose requests never overlapped has one in progress. *)
OneAtATime == \A c, d \in Call :
                /\ pc[c] # "idle" /\ pc[d] # "idle"
                /\ call[c].user = call[d].user /\ call[c].user \notin overlapped
                => c = d

(* Behind a cart on the screen of such a user is that cart, or it has been    *)
(* ordered or has expired, and no product is being added.                     *)
PageIsCurrent ==
  \A u \in User \ overlapped :
    tab[u].page = "cart" /\ tab[u].view \in {"read", "shown"} =>
      /\ cart[u] \in {tab[u].items, Empty}
      /\ \A c \in Call : pc[c] \in Adding => call[c].user # u

(* So a checkout in progress finds, and sends, what was on the screen. *)
CheckoutIsOfPage ==
  \A c \in Call :
    call[c].user \notin overlapped =>
      /\ pc[c] = "snapshot" => cart[call[c].user] \in {shownAt[call[c].corr], Empty}
      /\ pc[c] = "publish" => call[c].seen = shownAt[call[c].corr]

PageInv == TabShape /\ OneAtATime /\ PageIsCurrent /\ CheckoutIsOfPage /\ OrderedWasShown

(* Fresh product pages satisfy it. *)
LEMMA InitPageInv == SInit => PageInv
<1> SUFFICES ASSUME SInit PROVE PageInv
  OBVIOUS
<1> USE DEF SInit, Init
<1>1. TabShape
  BY Carts DEF TabShape, Tab, Page
<1>2. OneAtATime /\ CheckoutIsOfPage /\ OrderedWasShown
  BY DEF OneAtATime, CheckoutIsOfPage, OrderedWasShown
<1>3. PageIsCurrent
  BY DEF PageIsCurrent, Page
<1> QED BY <1>1, <1>2, <1>3 DEF PageInv

(* What a step of a page leaves as it is when shop-svc does nothing. *)
LEMMA PageStep ==
  ASSUME Shape, PageInv, UNCHANGED vars, UNCHANGED shownAt, overlapped \subseteq overlapped',
         TabShape', PageIsCurrent'
  PROVE  PageInv'
<1> USE DEF vars, histVars
<1>1. OneAtATime'
  BY DEF PageInv, OneAtATime
<1>2. CheckoutIsOfPage'
  BY DEF PageInv, CheckoutIsOfPage
<1>3. OrderedWasShown'
  BY DEF PageInv, OrderedWasShown
<1> QED BY <1>1, <1>2, <1>3 DEF PageInv

(* An answer only changes which requests a page waits for. *)
LEMMA AnswerKeepsView ==
  ASSUME TabShape, NEW c \in Call
  PROVE  /\ Answered(c) \in [User -> Tab]
         /\ \A u \in User : /\ Answered(c)[u].page = tab[u].page
                            /\ Answered(c)[u].view = tab[u].view
                            /\ Answered(c)[u].items = tab[u].items
<1>1. ASSUME NEW u \in User
      PROVE  /\ Answered(c)[u] \in Tab
             /\ Answered(c)[u].page = tab[u].page
             /\ Answered(c)[u].view = tab[u].view
             /\ Answered(c)[u].items = tab[u].items
  <2>1. tab[u] \in Tab
    BY DEF TabShape
  <2>2. CASE c \notin tab[u].sent
    BY <2>1, <2>2 DEF Answered
  <2>3. CASE c \in tab[u].sent
    BY <2>1, <2>3 DEF Answered, Tab
  <2> QED BY <2>2, <2>3
<1> QED BY <1>1 DEF Answered

(* Opening, reading, showing and failing pages; answers that get lost. *)
LEMMA ViewSteps ==
  ASSUME Shape, PageInv, NEW u \in User,
         \/ \E name \in {"products", "cart"} : Open(u, name)
         \/ CartRead(u) \/ CartShown(u) \/ CartFails(u)
         \/ \E c \in Call : Disconnect(u, c)
  PROVE  PageInv'
<1> USE DEF vars, histVars
<1>1. CASE \E name \in {"products", "cart"} : Open(u, name)
  <2> PICK name \in {"products", "cart"} : Open(u, name)
    BY <1>1
  <2>1. TabShape'
    BY Carts DEF PageInv, TabShape, Tab, Open, Page
  <2>2. PageIsCurrent'
    BY DEF PageInv, TabShape, PageIsCurrent, Open, Page
  <2> QED BY <2>1, <2>2, PageStep DEF Open
<1>2. CASE CartRead(u)
  <2>0. /\ tab' = [tab EXCEPT ![u].view = "read", ![u].items = cart[u]]
        /\ u \notin overlapped' => \A c \in Call : pc[c] # "idle" => call[c].user # u
        /\ overlapped \subseteq overlapped' /\ UNCHANGED vars /\ UNCHANGED shownAt
    BY <1>2 DEF CartRead, Overlap, InProgress
  <2>1. TabShape'
    <3>1. cart[u] \in Bag /\ tab \in [User -> Tab]
      BY DEF Shape, PageInv, TabShape
    <3>2. [tab[u] EXCEPT !.view = "read", !.items = cart[u]] \in Tab
      BY <3>1 DEF Tab
    <3>3. tab' = [tab EXCEPT ![u] = [tab[u] EXCEPT !.view = "read", !.items = cart[u]]]
      BY <2>0
    <3> QED BY <2>0, <3>1, <3>2, <3>3 DEF PageInv, TabShape
  <2>2. PageIsCurrent'
    <3> SUFFICES ASSUME NEW v \in User \ overlapped', tab'[v].page = "cart", tab'[v].view \in {"read", "shown"}
                 PROVE  cart[v] \in {tab'[v].items, Empty} /\ \A c \in Call : pc[c] \in Adding => call[c].user # v
      BY <2>0 DEF PageIsCurrent
    <3>1. CASE v = u
      <4>1. tab'[v] = [tab[u] EXCEPT !.view = "read", !.items = cart[u]] /\ tab[u] \in Tab
        BY <2>0, <3>1 DEF PageInv, TabShape
      <4>2. tab'[v].items = cart[v]
        BY <3>1, <4>1 DEF Tab
      <4> QED BY <2>0, <3>1, <4>2
    <3>2. CASE v # u
      <4>1. tab'[v] = tab[v]
        BY <2>0, <3>2 DEF PageInv, TabShape
      <4> QED BY <2>0, <4>1 DEF PageInv, PageIsCurrent
    <3> QED BY <3>1, <3>2
  <2> QED BY <1>2, <2>0, <2>1, <2>2, PageStep
<1>3. CASE CartShown(u) \/ CartFails(u)
  <2>1. TabShape'
    BY <1>3 DEF PageInv, TabShape, Tab, CartShown, CartFails
  <2>2. PageIsCurrent'
    BY <1>3 DEF PageInv, TabShape, Tab, PageIsCurrent, CartShown, CartFails
  <2> QED BY <1>3, <2>1, <2>2, PageStep DEF CartShown, CartFails
<1>4. CASE \E c \in Call : Disconnect(u, c)
  <2> PICK c \in Call : Disconnect(u, c)
    BY <1>4
  <2>1. TabShape'
    BY AnswerKeepsView DEF PageInv, TabShape, Disconnect
  <2>2. PageIsCurrent'
    BY AnswerKeepsView DEF PageInv, PageIsCurrent, Disconnect
  <2> QED BY <2>1, <2>2, PageStep DEF Disconnect
<1> QED BY <1>1, <1>2, <1>3, <1>4

(* A product is added from a product page. *)
LEMMA ClickAddStep ==
  ASSUME Shape, PageInv, NEW u \in User, NEW p \in Product, ClickAdd(u, p)
  PROVE  PageInv'
<1> PICK c \in Call : /\ AddToCart(c, u, p, 1)
                      /\ tab' = [tab EXCEPT ![u].sent = @ \cup {c}, ![u].latest = c, ![u].pending = p]
  BY DEF ClickAdd
<1>1. /\ pc[c] = "idle" /\ pc' = [pc EXCEPT ![c] = "product"]
      /\ call' = [call EXCEPT ![c] = [user |-> u, product |-> p, qty |-> 1, seen |-> Empty]]
      /\ UNCHANGED <<cart, published, shownAt>>
      /\ tab[u].page = "products" /\ overlapped \subseteq overlapped'
      /\ u \notin overlapped' => \A d \in Call : pc[d] # "idle" => call[d].user # u
  BY DEF ClickAdd, AddToCart, Begin, CanAdd, Overlap, InProgress
<1>2. tab \in [User -> Tab] /\ tab' \in [User -> Tab]
  <2>1. tab \in [User -> Tab]
    BY DEF PageInv, TabShape
  <2>2. [tab[u] EXCEPT !.sent = @ \cup {c}, !.latest = c, !.pending = p] \in Tab
    BY <2>1 DEF Tab
  <2>3. tab' = [tab EXCEPT ![u] = [tab[u] EXCEPT !.sent = @ \cup {c}, !.latest = c, !.pending = p]]
    OBVIOUS
  <2> QED BY <2>1, <2>2, <2>3
<1>3. TabShape'
  BY <1>1, <1>2 DEF PageInv, TabShape, Tab
<1>4. \A v \in User : tab'[v].page = tab[v].page /\ tab'[v].view = tab[v].view /\ tab'[v].items = tab[v].items
  BY <1>2 DEF Tab
<1>5. OneAtATime'
  BY <1>1 DEF PageInv, OneAtATime, Shape
<1>6. PageIsCurrent'
  BY <1>1, <1>4 DEF PageInv, PageIsCurrent, Shape
<1>7. CheckoutIsOfPage'
  BY <1>1 DEF PageInv, CheckoutIsOfPage, Shape
<1>8. OrderedWasShown'
  BY <1>1 DEF PageInv, OrderedWasShown
<1> QED BY <1>3, <1>5, <1>6, <1>7, <1>8 DEF PageInv

(* A checkout is of the cart shown, under a correlation id of its own. *)
LEMMA ClickCheckoutStep ==
  ASSUME Shape, PageInv, NEW u \in User, ClickCheckout(u)
  PROVE  PageInv'
<1> PICK c \in Call, k \in CorrId, pod \in Pod :
      /\ FreshCorr(k) /\ Checkout(c, u, k, pod)
      /\ tab' = [tab EXCEPT ![u].sent = @ \cup {c}, ![u].latest = c]
      /\ shownAt' = [shownAt EXCEPT ![k] = tab[u].items]
  BY DEF ClickCheckout
<1>1. /\ pc[c] = "idle" /\ pc' = [pc EXCEPT ![c] = "snapshot"]
      /\ call' = [call EXCEPT ![c] = [user |-> u, corr |-> k, pod |-> pod, seen |-> Empty]]
      /\ UNCHANGED <<cart, published>>
      /\ tab[u].page = "cart" /\ tab[u].view = "shown" /\ overlapped \subseteq overlapped'
      /\ u \notin overlapped' => \A d \in Call : pc[d] # "idle" => call[d].user # u
  BY DEF ClickCheckout, Checkout, Begin, CanCheckout, Overlap, InProgress
<1>2. tab \in [User -> Tab] /\ tab' \in [User -> Tab]
  <2>1. tab \in [User -> Tab]
    BY DEF PageInv, TabShape
  <2>2. [tab[u] EXCEPT !.sent = @ \cup {c}, !.latest = c] \in Tab
    BY <2>1 DEF Tab
  <2>3. tab' = [tab EXCEPT ![u] = [tab[u] EXCEPT !.sent = @ \cup {c}, !.latest = c]]
    OBVIOUS
  <2> QED BY <2>1, <2>2, <2>3
<1>3. TabShape'
  BY <1>1, <1>2 DEF PageInv, TabShape, Tab
<1>4. \A v \in User : tab'[v].page = tab[v].page /\ tab'[v].view = tab[v].view /\ tab'[v].items = tab[v].items
  BY <1>2 DEF Tab
<1>5. OneAtATime'
  BY <1>1 DEF PageInv, OneAtATime, Shape
<1>6. PageIsCurrent'
  BY <1>1, <1>4 DEF PageInv, PageIsCurrent, Shape
<1>7. CheckoutIsOfPage'
  <2>1. u \notin overlapped => cart[u] \in {tab[u].items, Empty}
    BY <1>1 DEF PageInv, PageIsCurrent
  <2> SUFFICES ASSUME NEW d \in Call, call'[d].user \notin overlapped'
               PROVE  /\ pc'[d] = "snapshot" => cart'[call'[d].user] \in {shownAt'[call'[d].corr], Empty}
                      /\ pc'[d] = "publish" => call'[d].seen = shownAt'[call'[d].corr]
    BY DEF CheckoutIsOfPage
  <2>2. CASE d = c
    BY <1>1, <2>1, <2>2 DEF Shape, PageInv, TabShape
  <2>3. CASE d # c
    <3>1. call'[d] = call[d] /\ pc'[d] = pc[d]
      BY <1>1, <2>3 DEF Shape
    <3>2. pc[d] \in CheckingOut => call[d].corr # k
      BY DEF FreshCorr
    <3> QED BY <1>1, <3>1, <3>2 DEF PageInv, TabShape, CheckoutIsOfPage
  <2> QED BY <2>2, <2>3
<1>8. OrderedWasShown'
  BY <1>1 DEF PageInv, TabShape, OrderedWasShown, FreshCorr
<1> QED BY <1>3, <1>5, <1>6, <1>7, <1>8 DEF PageInv

(* What serving a request does to the carts, the requests and the messages. *)
LEMMA ServeStep == ASSUME Shape, PageInv, NEW c \in Call, Serve(c) PROVE PageInv'
<1> USE DEF histVars
<1>1. UNCHANGED <<shownAt, overlapped>> /\ tab' \in {tab, Answered(c)}
  BY DEF Serve
<1>2. TabShape'
  BY <1>1, AnswerKeepsView DEF PageInv, TabShape
<1>3. \A u \in User : tab'[u].page = tab[u].page /\ tab'[u].view = tab[u].view /\ tab'[u].items = tab[u].items
  BY <1>1, AnswerKeepsView DEF PageInv
<1>4. /\ pc[c] # "idle"
      /\ \A d \in Call \ {c} : pc'[d] = pc[d] /\ call'[d] = call[d]
      /\ pc'[c] = "idle" \/ call'[c].user = call[c].user
      /\ pc'[c] \in Adding => pc[c] \in Adding
  BY DEF Serve, Work, Fail, GetProduct, GetCart, SetCart, SnapshotCart, CartIsEmpty, Publish,
         ClearCart, End, Goto, Shape, AddRequest, CheckoutRequest
<1>5. OneAtATime'
  BY <1>1, <1>4 DEF PageInv, OneAtATime
<1>6. \A u \in User : \/ cart'[u] \in {cart[u], Empty}
                      \/ pc[c] \in Adding /\ call[c].user = u
  BY DEF Serve, Work, Fail, GetProduct, GetCart, SetCart, SnapshotCart, CartIsEmpty, Publish,
         ClearCart, Shape
<1>7. PageIsCurrent'
  BY <1>1, <1>3, <1>4, <1>6 DEF PageInv, PageIsCurrent
<1>8. CheckoutIsOfPage'
  <2> SUFFICES ASSUME NEW d \in Call, call'[d].user \notin overlapped, pc'[d] \in {"snapshot", "publish"}
               PROVE  /\ pc'[d] = "snapshot" => cart'[call'[d].user] \in {shownAt[call'[d].corr], Empty}
                      /\ pc'[d] = "publish" => call'[d].seen = shownAt[call'[d].corr]
    BY <1>1 DEF CheckoutIsOfPage
  <2>1. CASE d = c
    <3>1. SnapshotCart(c)
      BY <2>1 DEF Serve, Work, Fail, GetProduct, GetCart, SetCart, SnapshotCart, CartIsEmpty,
                  Publish, ClearCart, End, Goto, Shape
    <3> QED BY <2>1, <3>1 DEF SnapshotCart, Goto, Shape, CheckoutRequest, PageInv, CheckoutIsOfPage
  <2>2. CASE d # c
    <3>1. call'[d] = call[d] /\ pc'[d] = pc[d] /\ call[d].user \in User
      BY <2>2, <1>4 DEF Shape, CheckoutRequest
    <3>2. call[c].user # call[d].user
      BY <1>4, <2>2, <3>1 DEF PageInv, OneAtATime
    <3> QED BY <1>6, <3>1, <3>2 DEF PageInv, CheckoutIsOfPage
  <2> QED BY <2>1, <2>2
<1>9. OrderedWasShown'
  <2>1. ASSUME NEW m \in published', m \notin published, m.user \notin overlapped
        PROVE  m.items = shownAt[m.corr]
    <3>1. /\ pc[c] = "publish"
          /\ m.items = call[c].seen /\ m.user = call[c].user /\ m.corr = call[c].corr
      BY <2>1 DEF Serve, Work, Fail, GetProduct, GetCart, SetCart, SnapshotCart, CartIsEmpty,
                  Publish, ClearCart
    <3> QED BY <2>1, <3>1 DEF PageInv, CheckoutIsOfPage
  <2> QED BY <1>1, <2>1 DEF PageInv, OrderedWasShown
<1> QED BY <1>2, <1>5, <1>7, <1>8, <1>9 DEF PageInv

(* Every step of a tab or of shop-svc keeps the invariant. *)
LEMMA NextPageInv == ASSUME Shape, PageInv, [SNext]_storeVars PROVE PageInv'
<1> USE DEF vars, tabVars, histVars
<1>1. ASSUME NEW u \in User, Expire(u), UNCHANGED tabVars PROVE PageInv'
  <2>1. /\ cart' = [cart EXCEPT ![u] = Empty]
        /\ UNCHANGED <<pc, call, published>>
        /\ UNCHANGED <<tab, shownAt, overlapped>>
    BY <1>1 DEF Expire
  <2>2. TabShape' /\ OneAtATime' /\ OrderedWasShown'
    BY <2>1 DEF PageInv, TabShape, OneAtATime, OrderedWasShown
  <2>3. PageIsCurrent'
    BY <2>1 DEF PageInv, PageIsCurrent, Shape
  <2>4. CheckoutIsOfPage'
    BY <2>1 DEF PageInv, CheckoutIsOfPage, Shape, CheckoutRequest
  <2> QED BY <2>2, <2>3, <2>4 DEF PageInv
<1>2. ASSUME NEW pod \in Pod, RestartPod(pod), UNCHANGED tabVars PROVE PageInv'
  BY <1>2 DEF RestartPod, PageInv, TabShape, OneAtATime, PageIsCurrent, CheckoutIsOfPage, OrderedWasShown
<1>3. CASE UNCHANGED storeVars
  BY <1>3 DEF storeVars, PageInv, TabShape, OneAtATime, PageIsCurrent, CheckoutIsOfPage, OrderedWasShown
<1>4. CASE SNext
  BY <1>1, <1>2, <1>4, ViewSteps, ClickAddStep, ClickCheckoutStep, ServeStep DEF SNext
<1> QED BY <1>3, <1>4

(* Under the pages too, nothing is ordered, or in a cart, that was not added  *)
(* (shop.service.ts:54-87).                                                   *)
THEOREM NothingFromNowhereInStore == SSpec => []NothingFromNowhere
BY StorefrontImplementsShop, NothingFromNowhereHolds, PTL

(* A user whose requests never overlapped orders what the cart page showed    *)
(* when Checkout was clicked (CartPage.tsx:11-18, shop.service.ts:69-87),     *)
(* whatever fails, expires, is left or reloaded, and however many such users  *)
(* and products there are.                                                    *)
THEOREM OrderedWasShownHolds == SSpec => []OrderedWasShown
<1>1. SInit => IInv /\ PageInv
  BY InitIInv, InitPageInv DEF SInit
<1>2. [SNext]_storeVars => [Next]_vars
  BY StepImplementsStep DEF storeVars
<1>3. IInv /\ PageInv /\ [SNext]_storeVars => (IInv /\ PageInv)'
  BY <1>2, NextIInv, NextPageInv DEF IInv
<1>4. PageInv => OrderedWasShown
  BY DEF PageInv
<1> QED BY <1>1, <1>3, <1>4, PTL DEF SSpec

-------------------------------------------------------------------------------
(* The books of a user whose requests never overlapped.  A request on its way  *)
(* to write or to send holds the cart there is; from the message to the DEL    *)
(* that follows, the items in the cart are ordered already and count no more.  *)
Clearing(u) == \E c \in Call : pc[c] = "clear" /\ call[c].user = u
InCart(u, p) == IF Clearing(u) THEN 0 ELSE cart[u][p]

Books == expired \in [User -> Bag] /\ ordered \in [User -> Bag]

SeenIsCurrent == \A c \in Call : pc[c] \in {"set", "publish"} /\ call[c].user \notin overlapped
                                => call[c].seen = cart[call[c].user]

Balance(u, p) ==
  /\ added[u][p] <= InCart(u, p) + ordered[u][p] + expired[u][p]
  /\ u \notin unsure => ordered[u][p] + InCart(u, p) <= added[u][p]

LInv == Books /\ SeenIsCurrent /\ \A u \in User \ overlapped, p \in Product : Balance(u, p)

(* The books open empty. *)
LEMMA InitLInv == SInit => LInv
<1> SUFFICES ASSUME SInit PROVE LInv
  OBVIOUS
<1>1. Empty \in Bag /\ \A p \in Product : Empty[p] = 0
  BY Carts DEF Empty
<1> QED BY <1>1 DEF SInit, Init, LInv, Books, SeenIsCurrent, Balance, InCart, Clearing

(* A step that moves no items and ends no request keeps the books. *)
LEMMA NoItemStep ==
  ASSUME Shape, LInv, UNCHANGED <<cart, added, ordered, expired>>,
         overlapped \subseteq overlapped', unsure \subseteq unsure',
         \A c \in Call : \/ pc'[c] = pc[c] /\ call'[c] = call[c]
                         \/ pc[c] = "idle" /\ pc'[c] \in {"product", "snapshot"}
  PROVE  LInv'
<1>1. Books' /\ SeenIsCurrent'
  BY DEF LInv, Books, SeenIsCurrent
<1>2. \A u \in User, p \in Product : InCart(u, p)' = InCart(u, p)
  BY DEF InCart, Clearing
<1>3. \A u \in User \ overlapped', p \in Product : Balance(u, p)'
  BY <1>2 DEF LInv, Balance
<1> QED BY <1>1, <1>3 DEF LInv

(* What expires leaves the cart of a user without requests for the books. *)
LEMMA ExpireLedger ==
  ASSUME Shape, LInv, NEW u \in User, Expire(u), UNCHANGED <<overlapped, unsure>>
  PROVE  LInv'
<1>1. /\ cart' = [cart EXCEPT ![u] = Empty]
      /\ expired' = [expired EXCEPT ![u] = Plus(expired[u], cart[u])]
      /\ UNCHANGED <<pc, call, added, ordered>>
      /\ \A c \in Call : pc[c] # "idle" => call[c].user # u
  BY DEF Expire
<1>2. cart[u] \in Bag /\ expired[u] \in Bag /\ Plus(expired[u], cart[u]) \in Bag
  BY Carts DEF Shape, LInv, Books
<1>3. Books'
  BY <1>1, <1>2 DEF LInv, Books
<1>4. SeenIsCurrent'
  BY <1>1 DEF LInv, SeenIsCurrent, Shape, AddRequest, CheckoutRequest
<1>5. ASSUME NEW v \in User \ overlapped, NEW p \in Product PROVE Balance(v, p)'
  <2>1. Balance(v, p)
    BY DEF LInv
  <2>2. CASE v = u
    <3>1. /\ cart'[v][p] = 0 /\ cart[v][p] \in Nat
          /\ expired'[v][p] = expired[v][p] + cart[v][p] /\ expired[v][p] \in Nat
          /\ ordered[v][p] \in Nat /\ added[v][p] \in Nat
      BY <1>1, <1>2, <2>2 DEF Shape, LInv, Books, Plus, Bag, Empty
    <3>2. InCart(v, p) = cart[v][p] /\ InCart(v, p)' = 0
      BY <1>1, <2>2, <3>1 DEF InCart, Clearing
    <3> QED BY <1>1, <2>1, <3>1, <3>2 DEF Balance
  <2>3. CASE v # u
    <3>1. InCart(v, p)' = InCart(v, p) /\ expired'[v] = expired[v]
      BY <1>1, <2>3 DEF InCart, Clearing, Shape, LInv, Books
    <3> QED BY <1>1, <2>1, <3>1 DEF Balance
  <2> QED BY <2>2, <2>3
<1> QED BY <1>3, <1>4, <1>5 DEF LInv

(* A request of shop-svc moves items of its own user only, between the cart and *)
(* a message, and under the eyes of no other request of that user.             *)
LEMMA ServeLedger == ASSUME Shape, PageInv, LInv, NEW c \in Call, Serve(c) PROVE LInv'
<1> USE DEF histVars
<1>0. pc[c] # "idle" /\ call[c].user \in User
  BY DEF Serve, Work, Fail, GetProduct, GetCart, SetCart, SnapshotCart, CartIsEmpty, Publish,
         ClearCart, Shape, AddRequest, CheckoutRequest
<1> PICK u \in User : u = call[c].user
  BY <1>0
<1>1. /\ call[c].user = u /\ call[c].seen \in Bag /\ cart[u] \in Bag
      /\ overlapped' = overlapped /\ unsure \subseteq unsure'
      /\ \A d \in Call \ {c} : pc'[d] = pc[d] /\ call'[d] = call[d]
      /\ pc'[c] = "idle" \/ call'[c].user = u
  BY <1>0 DEF Serve, Work, Fail, GetProduct, GetCart, SetCart, SnapshotCart, CartIsEmpty, Publish,
         ClearCart, End, Goto, Shape, AddRequest, CheckoutRequest
<1>2. \A v \in User \ {u} : /\ cart'[v] = cart[v] /\ added'[v] = added[v]
                            /\ ordered'[v] = ordered[v] /\ expired'[v] = expired[v]
  BY <1>1 DEF Serve, Work, Fail, GetProduct, GetCart, SetCart, SnapshotCart, CartIsEmpty, Publish,
         ClearCart, Shape, LInv, Books
<1>3. Books'
  BY <1>1, Carts DEF Serve, Work, Fail, GetProduct, GetCart, SetCart, SnapshotCart, CartIsEmpty,
         Publish, ClearCart, LInv, Books
<1>4. u \notin overlapped => \A d \in Call \ {c} : pc[d] # "idle" => call[d].user # u
  BY <1>0, <1>1 DEF PageInv, OneAtATime
<1>5. SeenIsCurrent'
  <2> SUFFICES ASSUME NEW d \in Call, pc'[d] \in {"set", "publish"}, call'[d].user \notin overlapped
               PROVE  call'[d].seen = cart'[call'[d].user]
    BY <1>1 DEF SeenIsCurrent
  <2>1. CASE d = c
    <3>1. GetCart(c) \/ SnapshotCart(c)
      BY <2>1 DEF Serve, Work, Fail, GetProduct, GetCart, SetCart, SnapshotCart, CartIsEmpty,
                  Publish, ClearCart, End, Goto, Shape
    <3>2. call' = [call EXCEPT ![c].seen = cart[u]] /\ cart' = cart
      BY <3>1 DEF GetCart, SnapshotCart
    <3>3. call[c] \in AddRequest \cup CheckoutRequest
      BY <1>0 DEF Shape
    <3> QED BY <2>1, <3>2, <3>3 DEF Shape, AddRequest, CheckoutRequest
  <2>2. CASE d # c
    <3>1. call'[d] = call[d] /\ pc'[d] = pc[d] /\ call[d].user \in User \ {u}
      BY <1>1, <1>4, <2>2 DEF Shape, AddRequest, CheckoutRequest
    <3> QED BY <1>2, <3>1 DEF LInv, SeenIsCurrent
  <2> QED BY <2>1, <2>2
<1>6. ASSUME NEW v \in User \ overlapped, v # u, NEW p \in Product PROVE Balance(v, p)'
  <2>1. InCart(v, p)' = InCart(v, p)
    BY <1>1, <1>2, <1>6 DEF InCart, Clearing
  <2> QED BY <1>1, <1>2, <1>6, <2>1 DEF LInv, Balance
<1>7. ASSUME NEW p \in Product, u \notin overlapped PROVE Balance(u, p)'
  <2>1. /\ added[u][p] \in Nat /\ cart[u][p] \in Nat /\ call[c].seen[p] \in Nat
        /\ ordered[u][p] \in Nat /\ expired[u][p] \in Nat
    BY <1>1 DEF Shape, LInv, Books, Bag
  <2>2. /\ InCart(u, p) = IF pc[c] = "clear" THEN 0 ELSE cart[u][p]
        /\ InCart(u, p)' = IF pc'[c] = "clear" THEN 0 ELSE cart'[u][p]
    BY <1>0, <1>1, <1>4, <1>7 DEF InCart, Clearing
  <2>3. Balance(u, p)
    BY <1>1, <1>7 DEF LInv
  <2>4. CASE SetCart(c)
    <3>1. PICK n \in Nat : added'[u][p] = added[u][p] + n /\ cart'[u][p] = cart[u][p] + n
      <4> DEFINE line == [Empty EXCEPT ![call[c].product] = call[c].qty]
      <4>1. call[c] \in AddRequest /\ call[c].seen = cart[u]
        BY <1>7, <2>4 DEF SetCart, Shape, LInv, SeenIsCurrent
      <4>2. line[p] \in Nat
        BY <4>1 DEF AddRequest, Empty
      <4>3. cart' = [cart EXCEPT ![u] = Plus(cart[u], line)] /\ added' = [added EXCEPT ![u] = Plus(@, line)]
        BY <2>4, <4>1 DEF SetCart
      <4> HIDE DEF line
      <4> QED BY <1>1, <4>2, <4>3 DEF Shape, Plus
    <3>2. /\ UNCHANGED <<ordered, expired>> /\ pc[c] = "set" /\ pc'[c] = "idle"
      BY <2>4 DEF SetCart, End, Goto, Shape
    <3> QED BY <1>1, <2>1, <2>2, <2>3, <3>1, <3>2 DEF Balance
  <2>5. CASE Publish(c)
    <3>1. call[c].seen = cart[u] /\ pc[c] = "publish" /\ UNCHANGED <<cart, added, expired>>
      BY <1>7, <2>5 DEF Publish, LInv, SeenIsCurrent
    <3>2. ordered'[u][p] = ordered[u][p] + cart[u][p]
      BY <1>1, <2>5, <3>1 DEF Publish, Plus, LInv, Books
    <3>3. pc'[c] = "clear" \/ u \in unsure'
      <4>1. published' # published
        <5>1. PICK i \in CartId :
                /\ \A m \in published : m.cartId # i
                /\ published' = published \cup
                     {[cartId |-> i, corr |-> call[c].corr, user |-> call[c].user,
                       items |-> call[c].seen, via |-> Channel(call[c].pod)]}
          BY <2>5 DEF Publish
        <5> DEFINE m == [cartId |-> i, corr |-> call[c].corr, user |-> call[c].user,
                         items |-> call[c].seen, via |-> Channel(call[c].pod)]
        <5>2. m \in published' /\ m.cartId = i
          BY <5>1
        <5> QED BY <5>1, <5>2
      <4>2. pc'[c] \in {"clear", "idle"}
        BY <2>5 DEF Publish, Goto, End, Shape
      <4>3. unsure' = unsure \cup {v \in User : call[c].user = v /\ published' # published /\ pc'[c] = "idle"}
        BY <4>1 DEF Serve, Fail
      <4> QED BY <1>1, <4>1, <4>2, <4>3
    <3> QED BY <1>1, <2>1, <2>2, <2>3, <3>1, <3>2, <3>3 DEF Balance
  <2>6. CASE ClearCart(c)
    <3>1. /\ pc[c] = "clear" /\ pc'[c] = "idle" /\ cart'[u][p] = 0
          /\ UNCHANGED <<added, ordered, expired>>
      BY <1>1, <2>6 DEF ClearCart, End, Goto, Shape, Empty
    <3> QED BY <1>1, <2>1, <2>2, <2>3, <3>1 DEF Balance
  <2>7. CASE GetProduct(c) \/ GetCart(c) \/ SnapshotCart(c) \/ CartIsEmpty(c)
    <3>1. UNCHANGED <<cart, added, ordered, expired>> /\ pc[c] # "clear" /\ pc'[c] # "clear"
      BY <2>7 DEF GetProduct, GetCart, SnapshotCart, CartIsEmpty, End, Goto, Shape
    <3> QED BY <1>1, <2>1, <2>2, <2>3, <3>1 DEF Balance
  <2>8. CASE Fail(c) /\ unsure' = unsure \cup {v \in User : call[c].user = v /\ pc[c] = "clear"}
    <3>1. UNCHANGED <<cart, added, ordered, expired>> /\ pc'[c] # "clear"
      BY <2>8 DEF Fail, End, Goto, Shape
    <3>2. pc[c] = "clear" => u \in unsure'
      BY <1>1, <2>8
    <3> QED BY <1>1, <2>1, <2>2, <2>3, <3>1, <3>2 DEF Balance
  <2> QED BY <2>4, <2>5, <2>6, <2>7, <2>8 DEF Serve, Work
<1> QED BY <1>1, <1>3, <1>5, <1>6, <1>7 DEF LInv

(* Every step of a tab or of shop-svc keeps the books. *)
LEMMA NextLInv == ASSUME Shape, PageInv, LInv, [SNext]_storeVars PROVE LInv'
<1> USE DEF vars, tabVars, histVars
<1>1. ASSUME NEW u \in User,
             \/ \E name \in {"products", "cart"} : Open(u, name)
             \/ CartRead(u) \/ CartShown(u) \/ CartFails(u)
             \/ \E c \in Call : Disconnect(u, c)
      PROVE  LInv'
  BY <1>1, NoItemStep DEF Open, CartRead, CartShown, CartFails, Disconnect, Overlap
<1>2. ASSUME NEW u \in User, NEW p \in Product, ClickAdd(u, p) PROVE LInv'
  BY <1>2, NoItemStep DEF ClickAdd, AddToCart, Begin, Overlap, Shape
<1>3. ASSUME NEW u \in User, ClickCheckout(u) PROVE LInv'
  BY <1>3, NoItemStep DEF ClickCheckout, Checkout, Begin, Overlap, Shape
<1>4. ASSUME NEW pod \in Pod, RestartPod(pod), UNCHANGED tabVars PROVE LInv'
  BY <1>4, NoItemStep DEF RestartPod
<1>5. CASE UNCHANGED storeVars
  BY <1>5, NoItemStep DEF storeVars
<1> QED BY <1>1, <1>2, <1>3, <1>4, <1>5, ServeLedger, ExpireLedger DEF SNext

(* The books are in order in every state of the shop. *)
LEMMA LedgerHolds == SSpec => [](Shape /\ LInv)
<1>1. SInit => IInv /\ PageInv /\ LInv
  BY InitIInv, InitPageInv, InitLInv DEF SInit
<1>2. [SNext]_storeVars => [Next]_vars
  BY StepImplementsStep DEF storeVars
<1>3. IInv /\ PageInv /\ LInv /\ [SNext]_storeVars => (IInv /\ PageInv /\ LInv)'
  BY <1>2, NextIInv, NextPageInv, NextLInv DEF IInv
<1>4. IInv /\ LInv => Shape /\ LInv
  BY DEF IInv
<1> QED BY <1>1, <1>3, <1>4, PTL DEF SSpec

(* Nothing that a user with one request at a time has added is lost, whatever  *)
(* fails (shop.service.ts:54-87): it is in the cart, or on its way to an order, *)
(* or has expired.                                                             *)
THEOREM ItemsConservedHolds == SSpec => []ItemsConserved
<1>1. Shape /\ LInv => ItemsConserved
  <2> SUFFICES ASSUME Shape, LInv, NEW u \in User \ overlapped, NEW p \in Product
               PROVE  added[u][p] <= cart[u][p] + ordered[u][p] + expired[u][p]
    BY DEF ItemsConserved
  <2>1. /\ added[u][p] \in Nat /\ cart[u][p] \in Nat
        /\ ordered[u][p] \in Nat /\ expired[u][p] \in Nat
    BY DEF Shape, LInv, Books, Bag
  <2>2. InCart(u, p) \in {0, cart[u][p]} /\ Balance(u, p)
    BY DEF InCart, LInv
  <2> QED BY <2>1, <2>2 DEF Balance
<1> QED BY <1>1, LedgerHolds, PTL

(* Nor does such a user order an item twice, unless told of an error for a      *)
(* checkout that was sent (shop.service.ts:69-87 clears the cart after sending). *)
THEOREM OrderedOnceHolds == SSpec => []OrderedOnce
<1>1. Shape /\ LInv => OrderedOnce
  <2> SUFFICES ASSUME Shape, LInv, NEW u \in User \ (overlapped \cup unsure), NEW p \in Product
               PROVE  ordered[u][p] <= added[u][p]
    BY DEF OrderedOnce
  <2>1. added[u][p] \in Nat /\ cart[u][p] \in Nat /\ ordered[u][p] \in Nat
    BY DEF Shape, LInv, Books, Bag
  <2>2. InCart(u, p) \in {0, cart[u][p]} /\ Balance(u, p)
    BY DEF InCart, LInv
  <2> QED BY <2>1, <2>2 DEF Balance
<1> QED BY <1>1, LedgerHolds, PTL
===============================================================================
