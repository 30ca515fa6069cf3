------------------------------ MODULE WebSession ------------------------------
(***************************************************************************)
(* The session of the web client: several tabs of one browser that share   *)
(* localStorage, the AuthProvider and SessionGuard of each, its Apollo     *)
(* links, and the gateway's guard and user-svc at the other end of every   *)
(* request.  The `user` of the AuthContext is left out: nothing reads it.  *)
(***************************************************************************)
EXTENDS Accounts, Sequences, FiniteSets

CONSTANTS Tab,
          None,         \* no token, no account
          MaxTimeout,   \* MAX_TIMEOUT_MS
          MaxForms,     \* bound: forms sent
          InFlight      \* bound: requests in progress

ASSUME NoneIsNone == None \notin Token \cup Account \cup Nat
ASSUME ClampType == MaxTimeout \in Nat
ASSUME FormsType == MaxForms \in Nat

VARIABLES storage,   \* localStorage's 'token'
          tok,       \* token of each tab's AuthProvider
          timer,     \* when the tab's expiry timer is due, None without one
          path,      \* "public" (/, /login, /register) or "private" (behind RequireAuth)
          view,      \* whose data the private page shows
          events,    \* storage events on their way to each tab
          flight,    \* requests in progress
          forms      \* forms sent so far

vars == <<users, now, storage, tok, timer, path, view, events, flight, forms>>

Request == [tab : Tab, kind : {"query", "mutation"}, with : Token \cup {None}]
           \cup [tab : Tab, kind : {"login", "check", "insert"}, with : Account]

Init == /\ users = {}
        /\ now = 0
        /\ storage = None
        /\ tok = [t \in Tab |-> None]
        /\ timer = tok
        /\ path = [t \in Tab |-> "public"]
        /\ view = tok
        /\ events = [t \in Tab |-> <<>>]
        /\ flight = {}
        /\ forms = 0

-------------------------------------------------------------------------------
Valid(k) == k # None /\ ~Expired(k)

(* Every write to localStorage that changes it is an event for the other tabs. *)
Announced(t, k) == [u \in Tab |-> IF u = t \/ k = storage THEN events[u]
                                  ELSE Append(events[u], k)]

Store(t, k) == storage' = k /\ events' = Announced(t, k)

(* getStoredToken: an expired token is removed by whoever reads it. *)
StoredEarlyBug == IF storage # None /\ now + 1 < storage.exp THEN storage ELSE None

Stored == IF Valid(storage) THEN storage ELSE None

(* The timer of a token: its exp, but no later than the clamp. *)
DueLateBug(k) == IF k = None THEN None ELSE k.exp + Lifetime

Due(k) == IF k = None THEN None
          ELSE IF k.exp <= now + MaxTimeout THEN k.exp ELSE now + MaxTimeout

(* setToken: the effect restarts the timer only when the token changed. *)
SetToken(t, k) == /\ tok' = [tok EXCEPT ![t] = k]
                  /\ timer' = IF k = tok[t] THEN timer ELSE [timer EXCEPT ![t] = Due(k)]

(* The tab shows page p; RequireAuth sends it to /login without a token.  What *)
(* the old page showed is gone.                                                *)
ShowUnguardedBug(t, p, k) == /\ path' = [path EXCEPT ![t] = p]
                             /\ view' = [view EXCEPT ![t] = None]

Show(t, p, k) ==
  /\ path' = [path EXCEPT ![t] = IF p = "private" /\ k = None THEN "public" ELSE p]
  /\ view' = [view EXCEPT ![t] = None]

(* A page that goes, or clearStore, cancels the tab's queries, not its mutations. *)
WithoutQueriesBug(t, F) == F

WithoutQueries(t, F) == {r \in F : ~(r.tab = t /\ r.kind = "query")}

(* signOut in tab t, which then shows /login (SessionGuard, the Nav), or stays *)
(* on it.                                                                      *)
SignedOut(t, F) == /\ Store(t, None)
                   /\ SetToken(t, None)
                   /\ Show(t, "public", None)
                   /\ flight' = WithoutQueries(t, F)

(* signIn, then on to the page the user came from, which may be the page that *)
(* the tab shows by now: that one stays as it is.                             *)
SignedIn(t, a, F) == /\ Store(t, Issued(a))
                     /\ SetToken(t, Issued(a))
                     /\ \/ /\ \E p \in {"public", "private"} : Show(t, p, Issued(a))
                           /\ flight' = WithoutQueries(t, F)
                        \/ /\ path[t] # "public"
                           /\ flight' = F
                           /\ UNCHANGED <<path, view>>

-------------------------------------------------------------------------------
(* A page load: the state the AuthProvider starts from.  The old page hears no *)
(* answer any more, but a register of its may still insert.                    *)
Load(t, p) == /\ storage' = Stored
              /\ events' = [Announced(t, Stored) EXCEPT ![t] = <<>>]
              /\ tok' = [tok EXCEPT ![t] = Stored]
              /\ timer' = [timer EXCEPT ![t] = Due(Stored)]
              /\ Show(t, p, Stored)
              /\ flight' = {r \in flight : r.tab # t}
              /\ \/ UNCHANGED users
                 \/ \E r \in flight \ flight' : r.kind = "insert" /\ Inserted(r.with)
              /\ UNCHANGED <<now, forms>>

(* A link to a page. *)
Visit(t, p) == /\ Show(t, p, tok[t])
               /\ flight' = WithoutQueries(t, flight)
               /\ UNCHANGED <<users, now, storage, tok, timer, events, forms>>

(* The Nav's button. *)
LogOut(t) == /\ tok[t] # None
             /\ SignedOut(t, flight)
             /\ UNCHANGED <<users, now, forms>>

(* onStorage: a token that has expired is ignored; anything else is taken over. *)
OnStorage(t) ==
  /\ events[t] # <<>>
  /\ LET k == Head(events[t]) IN
       IF k # None /\ Expired(k) THEN UNCHANGED <<tok, timer, path, view, flight>>
       ELSE /\ SetToken(t, k)
            /\ IF k = None /\ path[t] = "private"
               THEN Show(t, "private", None) /\ flight' = WithoutQueries(t, flight)
               ELSE UNCHANGED <<path, view, flight>>
  /\ events' = [events EXCEPT ![t] = Tail(@)]
  /\ UNCHANGED <<users, now, storage, forms>>

(* The expiry timer, which a busy or hidden tab runs late. *)
Timeout(t) == /\ timer[t] # None
              /\ now >= timer[t]
              /\ SignedOut(t, flight)
              /\ UNCHANGED <<users, now, forms>>

(* The auth link reads the token of a request from localStorage: the query of *)
(* a private page, or a mutation by a user who is signed in.                  *)
Ask(t, kind) == /\ Cardinality(flight) < InFlight
                /\ tok[t] # None
                /\ kind = "query" => path[t] = "private"
                /\ Store(t, Stored)
                /\ flight' = flight \cup {[tab |-> t, kind |-> kind, with |-> Stored]}
                /\ UNCHANGED <<users, now, tok, timer, path, view, forms>>

(* The form of /login or of /register, one submission at a time.  A user who is *)
(* signed in gets there by a page load.                                         *)
Submit(t, kind, a) == /\ Cardinality(flight) < InFlight
                      /\ path[t] = "public"
                      /\ ~\E r \in flight : r.tab = t /\ r.kind \in {"login", "check", "insert"}
                      /\ forms < MaxForms
                      /\ forms' = forms + 1
                      /\ Store(t, Stored)
                      /\ flight' = flight \cup {[tab |-> t, kind |-> kind, with |-> a]}
                      /\ UNCHANGED <<users, now, tok, timer, path, view>>

-------------------------------------------------------------------------------
(* The answers.  The guard verifies the token and the page gets the data of   *)
(* its sub, or the error link takes the 401 for the end of the session.       *)
Guarded(r) == /\ r.kind \in {"query", "mutation"}
              /\ Valid(r.with)
              /\ flight' = flight \ {r}
              /\ view' = IF r.kind = "query" THEN [view EXCEPT ![r.tab] = r.with.sub] ELSE view
              /\ UNCHANGED <<users, now, storage, tok, timer, path, events, forms>>

Unauthenticated(r) == /\ r.kind \in {"query", "mutation"}
                      /\ ~Valid(r.with)
                      /\ SignedOut(r.tab, flight \ {r})
                      /\ UNCHANGED <<users, now, forms>>

MayIssue == now + Lifetime <= MaxTime

Login(r) == /\ r.kind = "login"
            /\ Authentic(r.with)
            /\ MayIssue
            /\ SignedIn(r.tab, r.with, flight \ {r})
            /\ UNCHANGED <<users, now, forms>>

(* user-svc's 401 is the gateway's 502 with "Unauthorized" in its message, which *)
(* the error link matches: the wrong password ends the session there is.         *)
WrongPassword(r) == /\ r.kind = "login"
                    /\ ~Authentic(r.with)
                    /\ SignedOut(r.tab, flight \ {r})
                    /\ UNCHANGED <<users, now, forms>>

(* register: findOne, and 409 when there is such a user. *)
Check(r) == /\ r.kind = "check"
            /\ flight' = (flight \ {r}) \cup
                         IF Registered(r.with) THEN {} ELSE {[r EXCEPT !.kind = "insert"]}
            /\ UNCHANGED <<users, now, storage, tok, timer, path, view, events, forms>>

Register(r) == /\ r.kind = "insert"
               /\ MayIssue
               /\ Inserted(r.with)
               /\ SignedIn(r.tab, r.with, flight \ {r})
               /\ UNCHANGED <<now, forms>>

(* No answer, or an error that says nothing of the session; the INSERT of a *)
(* register may have been made.                                             *)
Fail(r) == /\ flight' = flight \ {r}
           /\ UNCHANGED users \/ (r.kind = "insert" /\ Inserted(r.with))
           /\ UNCHANGED <<now, storage, tok, timer, path, view, events, forms>>

Tick == /\ now < MaxTime
        /\ now' = now + 1
        /\ UNCHANGED <<users, storage, tok, timer, path, view, events, flight, forms>>

Answer(r) == \/ Guarded(r) \/ Unauthenticated(r) \/ Login(r) \/ WrongPassword(r)
             \/ Check(r) \/ Register(r) \/ Fail(r)

Next == \/ \E t \in Tab : \/ \E p \in {"public", "private"} : Load(t, p) \/ Visit(t, p)
                          \/ LogOut(t) \/ OnStorage(t) \/ Timeout(t)
                          \/ \E kind \in {"query", "mutation"} : Ask(t, kind)
                          \/ \E kind \in {"login", "check"}, a \in Account : Submit(t, kind, a)
        \/ \E r \in flight : Answer(r)
        \/ Tick

(* Browsers deliver storage events and run due timers; time passes. *)
Fairness == /\ WF_vars(Tick)
            /\ \A t \in Tab : WF_vars(OnStorage(t)) /\ WF_vars(Timeout(t))

Spec == Init /\ [][Next]_vars /\ Fairness

-------------------------------------------------------------------------------
TypeOK == /\ users \subseteq Account
          /\ now \in 0..MaxTime
          /\ storage \in Token \cup {None}
          /\ tok \in [Tab -> Token \cup {None}]
          /\ timer \in [Tab -> Nat \cup {None}]
          /\ \A t \in Tab : timer[t] = None <=> tok[t] = None
          /\ path \in [Tab -> {"public", "private"}]
          /\ \A t \in Tab : path[t] = "private" => tok[t] # None
          /\ view \in [Tab -> Account \cup {None}]
          /\ \A t \in Tab : view[t] # None => path[t] = "private"
          /\ events \in [Tab -> Seq(Token \cup {None})]
          /\ flight \subseteq Request
          /\ forms \in 0..MaxForms

(* A token that a tab holds, is told of or sends names a row of users: a       *)
(* register that lost the race for its e-mail against another (the unique      *)
(* index of user.entity.ts:13) has signed nobody in.                           *)
Held == {storage} \cup {tok[t] : t \in Tab}
        \cup (UNION {{events[t][i] : i \in DOMAIN events[t]} : t \in Tab})
        \cup {r.with : r \in {q \in flight : q.kind \in {"query", "mutation"}}}
TokensNameAccounts == \A k \in Held \ {None} : k.sub \in users

(* A session whose token is valid ends only by a click on Log out, by what a    *)
(* tab does about another token than that one (its timer, or the 401 of a       *)
(* request that was on its way; main.tsx:50), by a timer that the clamp set     *)
(* before the expiry (AuthContext.tsx:56), or by a wrong password: never by the *)
(* check of its own expiry, neither in the client nor in the gateway.           *)
EndOfValidSession == Valid(storage) /\ storage' = None
ValidSessionEndsForAReason ==
  [][EndOfValidSession =>
       \/ \E t \in Tab : LogOut(t)
       \/ \E t \in Tab : Timeout(t) /\ (tok[t] # storage \/ timer[t] < storage.exp)
       \/ \E r \in flight : WrongPassword(r)
       \/ \E r \in flight : Unauthenticated(r) /\ r.with # storage]_vars

(* A tab shows, or is about to show, the data of one user under the token of     *)
(* another only after a sign-in in another tab, whose token it takes over        *)
(* (AuthContext.tsx:44) or sends before it has heard of it, or when a sign-in is *)
(* answered after the user has moved on to a private page.                       *)
Subjects(t) == {view[t]} \cup {r.with.sub : r \in {q \in flight : /\ q.tab = t
                                                               /\ q.kind = "query"
                                                               /\ q.with # None}}
Mixed(t) == \E a \in Subjects(t) \ {None} : tok[t] = None \/ tok[t].sub # a
MixedByAnotherSignIn ==
  [][\A t \in Tab : ~Mixed(t) /\ Mixed(t)' =>
       \/ tok'[t] # None /\ <<tok'[t]>> \o events'[t] = events[t]
       \/ Ask(t, "query") /\ storage \notin {None, tok[t]}
       \/ path[t] = "private" /\ \E r \in flight : r.tab = t /\ (Login(r) \/ Register(r))]_vars

(* Once nobody signs in any more, a sign-out in one tab signs out every tab,    *)
(* whatever order the storage events arrive in.                                 *)
SignedOutEverywhere == <>[](storage = None) => <>[](\A t \in Tab : tok[t] = None)
===============================================================================
