------------------------------ MODULE Storefront ------------------------------
(***************************************************************************)
(* The product page and the cart page of one browser tab per user, on top  *)
(* of ShopCheckout.  What a tab may send depends on what it shows: the     *)
(* button of a product is disabled while that product is being added, the  *)
(* checkout button while a checkout is sent.  None of this survives leaving*)
(* the page or reloading it, while the requests already sent go on, so one *)
(* user in one tab can have several of them in progress.                   *)
(*                                                                         *)
(* The gateway between the two keeps no state: it takes the user from the  *)
(* token, gives every request a new correlation id, and passes the answer  *)
(* on, in the step that produces it.                                       *)
(***************************************************************************)
EXTENDS ShopCheckout

CONSTANTS NoCall, NoProduct

VARIABLES tab,        \* what each user's tab shows and waits for
          shownAt,    \* history: the cart on the screen when a checkout was clicked
          overlapped, \* history: users who had two requests in progress at once
          unsure      \* history: users told of an error although a message went out

tabVars == <<tab, shownAt, overlapped, unsure>>
storeVars == <<vars, tabVars>>

(* a freshly mounted page: sent holds its requests, latest and pending decide its buttons *)
Page(name, view, items) == [page |-> name, view |-> view, items |-> items,
                            sent |-> {}, latest |-> NoCall, pending |-> NoProduct]

SInit == /\ Init
         /\ tab = [u \in User |-> Page("products", "shown", Empty)]
         /\ shownAt = [k \in CorrId |-> Empty]
         /\ overlapped = {} /\ unsure = {}

InProgress(u) == {c \in Call : pc[c] # "idle" /\ call[c].user = u}
Overlap(u) == overlapped' = overlapped \cup (IF InProgress(u) = {} THEN {} ELSE {u})

-------------------------------------------------------------------------------
(* Navigation and reload mount the page anew; the cart page asks for the cart,    *)
(* and shows a spinner instead of a cart it may have in its cache.               *)
OpenCachedBug(u, name) ==
  /\ tab' = [tab EXCEPT ![u] = Page(name, IF tab[u].items = Empty THEN "loading" ELSE "shown", tab[u].items)]
  /\ UNCHANGED <<vars, shownAt, overlapped, unsure>>
Open(u, name) ==
  /\ tab' = [tab EXCEPT ![u] = Page(name, IF name = "cart" THEN "loading" ELSE "shown", Empty)]
  /\ UNCHANGED <<vars, shownAt, overlapped, unsure>>

(* The cart query: GET cart:<user>, and later its answer on the screen. *)
CartRead(u) ==
  /\ tab[u].view = "loading"
  /\ tab' = [tab EXCEPT ![u].view = "read", ![u].items = cart[u]]
  /\ Overlap(u)
  /\ UNCHANGED <<vars, shownAt, unsure>>

CartShown(u) ==
  /\ tab[u].view = "read"
  /\ tab' = [tab EXCEPT ![u].view = "shown"]
  /\ UNCHANGED <<vars, shownAt, overlapped, unsure>>

CartFails(u) ==
  /\ tab[u].view \in {"loading", "read"}
  /\ tab' = [tab EXCEPT ![u].view = "error"]
  /\ UNCHANGED <<vars, shownAt, overlapped, unsure>>

-------------------------------------------------------------------------------
(* onAdd.  The page has one mutation and one pendingId for all its products, so   *)
(* the button of one product is enabled again as soon as another one is clicked.  *)
CanAdd(u, p) == tab[u].page = "products" /\ ~ (tab[u].latest # NoCall /\ tab[u].pending = p)

ClickAdd(u, p) ==
  /\ CanAdd(u, p)
  /\ \E c \in Call :
       /\ AddToCart(c, u, p, 1)
       /\ tab' = [tab EXCEPT ![u].sent = @ \cup {c}, ![u].latest = c, ![u].pending = p]
  /\ Overlap(u)
  /\ UNCHANGED <<shownAt, unsure>>

(* onCheckout, from a cart that is shown and not empty.  The page does not ask    *)
(* for the cart again afterwards: it goes on showing what was ordered.            *)
CanCheckout(u) == /\ tab[u].page = "cart" /\ tab[u].view = "shown"
                  /\ tab[u].items # Empty /\ tab[u].latest = NoCall

FreshCorr(k) == /\ \A m \in published : m.corr # k
                /\ \A c \in Call : pc[c] \in {"snapshot", "publish", "clear"} => call[c].corr # k

ClickCheckout(u) ==
  /\ CanCheckout(u)
  /\ \E c \in Call, k \in CorrId, pod \in Pod :
       /\ FreshCorr(k)
       /\ Checkout(c, u, k, pod)
       /\ tab' = [tab EXCEPT ![u].sent = @ \cup {c}, ![u].latest = c]
       /\ shownAt' = [shownAt EXCEPT ![k] = tab[u].items]
  /\ Overlap(u)
  /\ UNCHANGED unsure

(* An answer reaches the page that sent the request, if it is still mounted: any  *)
(* add clears pendingId, only the latest request ends the loading state.          *)
Answered(c) ==
  [u \in User |->
     IF c \notin tab[u].sent THEN tab[u]
     ELSE [tab[u] EXCEPT !.sent = @ \ {c}, !.pending = NoProduct,
                         !.latest = IF @ = c THEN NoCall ELSE @]]

Serve(c) ==
  /\ \/ /\ Work(c)
        /\ unsure' = unsure \cup {u \in User : call[c].user = u /\ published' # published /\ pc'[c] = "idle"}
     \/ /\ Fail(c)
        /\ unsure' = unsure \cup {u \in User : call[c].user = u /\ pc[c] = "clear"}
  /\ tab' = IF pc'[c] = "idle" THEN Answered(c) ELSE tab
  /\ UNCHANGED <<shownAt, overlapped>>

(* The connection to a request is lost: the page is told of an error, the request *)
(* goes on.                                                                       *)
Disconnect(u, c) ==
  /\ c \in tab[u].sent
  /\ tab' = Answered(c)
  /\ UNCHANGED <<vars, shownAt, overlapped, unsure>>

SNext == \/ \E u \in User :
              \/ \E name \in {"products", "cart"} : Open(u, name)
              \/ CartRead(u) \/ CartShown(u) \/ CartFails(u)
              \/ \E p \in Product : ClickAdd(u, p)
              \/ ClickCheckout(u)
              \/ \E c \in Call : Disconnect(u, c)
              \/ Expire(u) /\ UNCHANGED tabVars
         \/ \E c \in Call : Serve(c)
         \/ \E pod \in Pod : RestartPod(pod) /\ UNCHANGED tabVars

SSpec == SInit /\ [][SNext]_storeVars

-------------------------------------------------------------------------------
(* Nothing is lost, whatever fails, for a user whose requests never overlapped:   *)
(* what was added is in the cart, or was sent to order-svc, or has expired.       *)
ItemsConserved ==
  \A u \in User \ overlapped, p \in Product :
    added[u][p] <= cart[u][p] + ordered[u][p] + expired[u][p]

(* The orders of such a user together hold no more than was added, unless an      *)
(* error was reported for a checkout that had been sent: then the cart is still   *)
(* full, and the user orders it once more.                                        *)
OrderedOnce ==
  \A u \in User \ (overlapped \cup unsure), p \in Product : ordered[u][p] <= added[u][p]

(* What is ordered is what the cart page showed when Checkout was clicked, unless *)
(* the cart was read, or the checkout sent, while another request was in progress.*)
OrderedWasShown ==
  \A m \in published : m.user \notin overlapped => m.items = shownAt[m.corr]
===============================================================================
