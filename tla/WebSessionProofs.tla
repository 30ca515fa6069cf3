--------------------------- MODULE WebSessionProofs ---------------------------
(***************************************************************************)
(* Proofs about WebSession for any tabs, accounts, requests in progress,   *)
(* lifetimes and clamps of the timer.  That a token names an account takes *)
(* every place a token can be in at once: localStorage, the tabs, the      *)
(* storage events and the requests on their way.                           *)
(***************************************************************************)
EXTENDS WebSession, SequenceTheorems, TLAPS

MaybeToken == Token \cup {None}

Named(k, U) == k # None => k.sub \in U

(* TokensNameAccounts, one place after the other. *)
NamedTokens ==
  /\ Named(storage, users)
  /\ \A t \in Tab : Named(tok[t], users)
  /\ \A t \in Tab : \A i \in DOMAIN events[t] : Named(events[t][i], users)
  /\ \A r \in flight : r.kind \in {"query", "mutation"} => Named(r.with, users)

(* A query is cancelled with the private page that made it. *)
QueriesArePrivate == \A r \in flight : r.kind = "query" => path[r.tab] = "private"

WInv == TypeOK /\ NamedTokens /\ QueriesArePrivate

(* Nobody is signed in at first. *)
LEMMA InitWInv == Init => WInv
<1> SUFFICES ASSUME Init PROVE WInv
  OBVIOUS
<1>1. TypeOK
  BY NoneIsNone, MaxTimeType, FormsType DEF Init, TypeOK
<1>2. NamedTokens /\ QueriesArePrivate
  BY DEF Init, NamedTokens, Named, QueriesArePrivate
<1> QED BY <1>1, <1>2 DEF WInv

-------------------------------------------------------------------------------
(* What the operators of the model give. *)
LEMMA StoredIsToken == TypeOK => Stored \in MaybeToken /\ Stored \in {storage, None}
  BY DEF TypeOK, Stored, MaybeToken

LEMMA IssuedIsToken ==
  ASSUME TypeOK, MayIssue, NEW a \in Account
  PROVE  Issued(a) \in Token /\ Issued(a).sub = a /\ Issued(a) # None
<1>1. now + Lifetime \in 0..(MaxTime + Lifetime)
  BY LifetimeType, MaxTimeType DEF TypeOK, MayIssue
<1> QED BY <1>1, NoneIsNone DEF Issued, Token

LEMMA DueIsTime ==
  ASSUME TypeOK, NEW k \in MaybeToken
  PROVE  Due(k) \in Nat \cup {None} /\ (Due(k) = None <=> k = None)
<1>1. CASE k = None
  BY <1>1 DEF Due
<1>2. CASE k # None
  <2>1. k.exp \in Nat /\ now + MaxTimeout \in Nat
    BY <1>2, ClampType, LifetimeType, MaxTimeType DEF MaybeToken, Token, TypeOK
  <2> QED BY <1>2, <2>1, NoneIsNone DEF Due
<1> QED BY <1>1, <1>2

(* A write to localStorage: the events carry the token written and no other. *)
LEMMA StoreStep ==
  ASSUME TypeOK, NEW t \in Tab, NEW k \in MaybeToken, Store(t, k)
  PROVE  /\ storage' = k /\ events' \in [Tab -> Seq(MaybeToken)]
         /\ \A u \in Tab : \A i \in DOMAIN events'[u] :
              events'[u][i] = k \/ \E j \in DOMAIN events[u] : events'[u][i] = events[u][j]
<1> SUFFICES ASSUME NEW u \in Tab
             PROVE  /\ events'[u] \in Seq(MaybeToken)
                    /\ \A i \in DOMAIN events'[u] :
                         events'[u][i] = k \/ \E j \in DOMAIN events[u] : events'[u][i] = events[u][j]
  BY DEF Store, Announced
<1>1. events[u] \in Seq(MaybeToken)
  BY DEF TypeOK, MaybeToken
<1>2. events'[u] \in {events[u], Append(events[u], k)}
  BY DEF Store, Announced
<1>3. Append(events[u], k) \in Seq(MaybeToken)
  BY <1>1
<1>4. \A i \in DOMAIN Append(events[u], k) :
        \/ i \in DOMAIN events[u] /\ Append(events[u], k)[i] = events[u][i]
        \/ Append(events[u], k)[i] = k
  BY <1>1
<1> QED BY <1>1, <1>2, <1>3, <1>4

(* setToken changes one tab, and its timer runs when there is a token. *)
LEMMA SetTokenStep ==
  ASSUME TypeOK, NEW t \in Tab, NEW k \in MaybeToken, SetToken(t, k)
  PROVE  /\ tok' \in [Tab -> MaybeToken] /\ timer' \in [Tab -> Nat \cup {None}]
         /\ \A u \in Tab : timer'[u] = None <=> tok'[u] = None
         /\ tok'[t] = k
         /\ \A u \in Tab \ {t} : tok'[u] = tok[u]
  BY DueIsTime DEF SetToken, TypeOK, MaybeToken

(* A page that is shown is private only with a token, and shows no data yet. *)
LEMMA ShowStep ==
  ASSUME TypeOK, NEW t \in Tab, NEW p \in {"public", "private"}, NEW k, Show(t, p, k)
  PROVE  /\ path' \in [Tab -> {"public", "private"}] /\ view' \in [Tab -> Account \cup {None}]
         /\ view'[t] = None /\ (path'[t] = "private" => k # None)
         /\ \A u \in Tab \ {t} : path'[u] = path[u] /\ view'[u] = view[u]
  BY DEF Show, TypeOK

-------------------------------------------------------------------------------
(* A step that keeps the types, moves tokens from one place to another only, *)
(* and leaves no query behind on a public page.                              *)
LEMMA TokensMove ==
  ASSUME WInv, TypeOK', users \subseteq users',
         NEW k \in MaybeToken, Named(k, users'),
         storage' \in {storage, k},
         \A t \in Tab : tok'[t] \in {tok[t], k},
         \A t \in Tab : \A i \in DOMAIN events'[t] :
           events'[t][i] = k \/ \E j \in DOMAIN events[t] : events'[t][i] = events[t][j],
         \A r \in flight' \ flight : r.kind \in {"query", "mutation"} => r.with = k,
         \A r \in flight' : r.kind = "query" => path'[r.tab] = "private"
  PROVE  WInv'
<1>1. \A x : Named(x, users) => Named(x, users')
  BY DEF Named
<1>2. Named(storage', users') /\ \A t \in Tab : Named(tok'[t], users')
  BY <1>1 DEF WInv, NamedTokens
<1>3. \A t \in Tab : \A i \in DOMAIN events'[t] : Named(events'[t][i], users')
  BY <1>1 DEF WInv, NamedTokens
<1>4. \A r \in flight' : r.kind \in {"query", "mutation"} => Named(r.with, users')
  BY <1>1 DEF WInv, NamedTokens
<1>5. NamedTokens' /\ QueriesArePrivate'
  BY <1>2, <1>3, <1>4 DEF NamedTokens, QueriesArePrivate
<1> QED BY <1>5 DEF WInv

(* The token None, and the one in localStorage, name an account or nothing. *)
LEMMA KnownTokens == WInv => /\ None \in MaybeToken /\ Named(None, users)
                             /\ Stored \in MaybeToken /\ Named(Stored, users)
  BY StoredIsToken DEF WInv, NamedTokens, Named, MaybeToken

(* Signing out in one tab. *)
LEMMA SignedOutStep ==
  ASSUME WInv, NEW t \in Tab, NEW F \in SUBSET flight, SignedOut(t, F),
         UNCHANGED <<users, now, forms>>
  PROVE  WInv'
<1>1. Store(t, None) /\ SetToken(t, None) /\ Show(t, "public", None) /\ flight' = WithoutQueries(t, F)
  BY DEF SignedOut
<1>2. TypeOK /\ None \in MaybeToken /\ Named(None, users')
  BY KnownTokens DEF WInv
<1>3. TypeOK'
  <2>1. flight' \subseteq Request /\ storage' \in MaybeToken /\ events' \in [Tab -> Seq(MaybeToken)]
    BY <1>1, <1>2, StoreStep DEF TypeOK, WithoutQueries
  <2>2. \A u \in Tab : path'[u] = "private" => tok'[u] # None
    BY <1>1, <1>2, SetTokenStep, ShowStep DEF TypeOK
  <2>3. \A u \in Tab : view'[u] # None => path'[u] = "private"
    BY <1>1, <1>2, ShowStep DEF TypeOK
  <2> QED BY <1>1, <1>2, <2>1, <2>2, <2>3, SetTokenStep, ShowStep DEF TypeOK, MaybeToken
<1>4. \A u \in Tab : \A i \in DOMAIN events'[u] :
        events'[u][i] = None \/ \E j \in DOMAIN events[u] : events'[u][i] = events[u][j]
  BY <1>1, <1>2, StoreStep
<1>5. \A r \in flight' : r.kind = "query" => path'[r.tab] = "private"
  <2> SUFFICES ASSUME NEW r \in flight', r.kind = "query" PROVE path'[r.tab] = "private"
    OBVIOUS
  <2>1. r \in flight /\ r.tab \in Tab \ {t}
    BY <1>1, <1>2 DEF WithoutQueries, TypeOK, Request
  <2> QED BY <1>1, <1>2, <2>1, ShowStep DEF WInv, QueriesArePrivate
<1>6. flight' \subseteq flight /\ storage' = None /\ \A u \in Tab : tok'[u] \in {tok[u], None}
  BY <1>1, <1>2, SetTokenStep, StoreStep DEF WithoutQueries
<1> QED BY <1>2, <1>3, <1>4, <1>5, <1>6, TokensMove

(* Signing in to an account that there is. *)
LEMMA SignedInStep ==
  ASSUME WInv, NEW t \in Tab, NEW a \in users', NEW F \in SUBSET flight, SignedIn(t, a, F),
         MayIssue, users \subseteq users', users' \subseteq Account, UNCHANGED <<now, forms>>
  PROVE  WInv'
<1>1. /\ Store(t, Issued(a)) /\ SetToken(t, Issued(a))
      /\ \/ (\E p \in {"public", "private"} : Show(t, p, Issued(a))) /\ flight' = WithoutQueries(t, F)
         \/ path[t] # "public" /\ flight' = F /\ UNCHANGED <<path, view>>
  BY DEF SignedIn
<1> PICK k \in MaybeToken : k = Issued(a) /\ k # None /\ k.sub = a
  BY IssuedIsToken DEF WInv, MaybeToken
<1>2. TypeOK /\ Named(k, users')
  BY DEF WInv, Named
<1>3. \A u \in Tab : /\ path'[u] \in {"public", "private"} /\ view'[u] \in Account \cup {None}
                     /\ view'[u] # None => path'[u] = "private"
                     /\ u # t => path'[u] = path[u]
                     /\ path'[u] = "private" => tok'[u] # None
  BY <1>1, <1>2, SetTokenStep, ShowStep DEF TypeOK
<1>4. path' \in [Tab -> {"public", "private"}] /\ view' \in [Tab -> Account \cup {None}]
  BY <1>1, <1>2, ShowStep DEF TypeOK
<1>5. TypeOK'
  <2>1. flight' \subseteq Request /\ storage' \in MaybeToken /\ events' \in [Tab -> Seq(MaybeToken)]
    BY <1>1, <1>2, StoreStep DEF TypeOK, WithoutQueries
  <2> QED BY <1>1, <1>2, <1>3, <1>4, <2>1, SetTokenStep DEF TypeOK, MaybeToken
<1>6. \A u \in Tab : \A i \in DOMAIN events'[u] :
        events'[u][i] = k \/ \E j \in DOMAIN events[u] : events'[u][i] = events[u][j]
  BY <1>1, <1>2, StoreStep
<1>7. \A r \in flight' : r.kind = "query" => path'[r.tab] = "private"
  <2> SUFFICES ASSUME NEW r \in flight', r.kind = "query" PROVE path'[r.tab] = "private"
    OBVIOUS
  <2>1. r \in flight /\ r.tab \in Tab /\ path[r.tab] = "private"
    BY <1>1, <1>2 DEF WithoutQueries, TypeOK, Request, WInv, QueriesArePrivate
  <2>2. CASE UNCHANGED path
    BY <2>1, <2>2
  <2>3. CASE flight' = WithoutQueries(t, F)
    BY <1>3, <2>1, <2>3 DEF WithoutQueries
  <2> QED BY <1>1, <2>2, <2>3
<1>8. flight' \subseteq flight /\ storage' = k /\ \A u \in Tab : tok'[u] \in {tok[u], k}
  BY <1>1, <1>2, SetTokenStep, StoreStep DEF WithoutQueries
<1> QED BY <1>2, <1>5, <1>6, <1>7, <1>8, TokensMove

(* The INSERT of a register adds a row. *)
LEMMA InsertedStep ==
  ASSUME TypeOK, NEW r \in flight, r.kind = "insert", Inserted(r.with)
  PROVE  users \subseteq users' /\ users' \subseteq Account /\ r.with \in users'
  BY DEF TypeOK, Inserted, Request

(* A page load starts from localStorage. *)
LEMMA LoadStep == ASSUME WInv, NEW t \in Tab, NEW p \in {"public", "private"}, Load(t, p) PROVE WInv'
<1>1. /\ storage' = Stored /\ events' = [Announced(t, Stored) EXCEPT ![t] = <<>>]
      /\ tok' = [tok EXCEPT ![t] = Stored] /\ timer' = [timer EXCEPT ![t] = Due(Stored)]
      /\ Show(t, p, Stored) /\ flight' = {r \in flight : r.tab # t}
      /\ UNCHANGED <<now, forms>>
  BY DEF Load
<1>2. TypeOK /\ Stored \in MaybeToken /\ Named(Stored, users) /\ Stored \in {storage, None}
  BY KnownTokens, StoredIsToken DEF WInv
<1>3. users \subseteq users' /\ users' \subseteq Account
  BY <1>2, InsertedStep DEF Load, TypeOK
<1>4. /\ events' \in [Tab -> Seq(MaybeToken)]
      /\ \A u \in Tab : \A i \in DOMAIN events'[u] :
           events'[u][i] = Stored \/ \E j \in DOMAIN events[u] : events'[u][i] = events[u][j]
  <2> SUFFICES ASSUME NEW u \in Tab
               PROVE  /\ events'[u] \in Seq(MaybeToken)
                      /\ \A i \in DOMAIN events'[u] :
                           events'[u][i] = Stored \/ \E j \in DOMAIN events[u] : events'[u][i] = events[u][j]
    BY <1>1 DEF Announced
  <2>1. events[u] \in Seq(MaybeToken) /\ events'[u] \in {<<>>, events[u], Append(events[u], Stored)}
    BY <1>1, <1>2 DEF Announced, TypeOK, MaybeToken
  <2>2. \A i \in DOMAIN Append(events[u], Stored) :
          \/ i \in DOMAIN events[u] /\ Append(events[u], Stored)[i] = events[u][i]
          \/ Append(events[u], Stored)[i] = Stored
    BY <2>1
  <2>3. <<>> \in Seq(MaybeToken) /\ Append(events[u], Stored) \in Seq(MaybeToken) /\ DOMAIN <<>> = {}
    BY <1>2, <2>1
  <2> QED BY <2>1, <2>2, <2>3
<1>5. TypeOK'
  <2>1. /\ tok' \in [Tab -> MaybeToken] /\ timer' \in [Tab -> Nat \cup {None}]
        /\ \A u \in Tab : timer'[u] = None <=> tok'[u] = None
    BY <1>1, <1>2, DueIsTime DEF TypeOK, MaybeToken
  <2>2. \A u \in Tab : /\ path'[u] = "private" => tok'[u] # None
                       /\ view'[u] # None => path'[u] = "private"
    BY <1>1, <1>2, ShowStep DEF TypeOK
  <2>3. flight' \subseteq Request /\ storage' \in MaybeToken
    BY <1>1, <1>2 DEF TypeOK
  <2> QED BY <1>1, <1>2, <1>3, <1>4, <2>1, <2>2, <2>3, ShowStep DEF TypeOK, MaybeToken
<1>6. \A r \in flight' : r.kind = "query" => path'[r.tab] = "private"
  <2> SUFFICES ASSUME NEW r \in flight', r.kind = "query" PROVE path'[r.tab] = "private"
    OBVIOUS
  <2>1. r \in flight /\ r.tab \in Tab \ {t}
    BY <1>1, <1>2 DEF TypeOK, Request
  <2> QED BY <1>1, <1>2, <2>1, ShowStep DEF WInv, QueriesArePrivate
<1>7. flight' \subseteq flight /\ (\A u \in Tab : tok'[u] \in {tok[u], Stored}) /\ Named(Stored, users')
  BY <1>1, <1>2, <1>3 DEF TypeOK, Named
<1> QED BY <1>1, <1>2, <1>3, <1>4, <1>5, <1>6, <1>7, TokensMove

(* A link to another page. *)
LEMMA VisitStep == ASSUME WInv, NEW t \in Tab, NEW p \in {"public", "private"}, Visit(t, p) PROVE WInv'
<1>1. /\ Show(t, p, tok[t]) /\ flight' = WithoutQueries(t, flight)
      /\ UNCHANGED <<users, now, storage, tok, timer, events, forms>>
  BY DEF Visit
<1>2. TypeOK
  BY DEF WInv
<1>3. TypeOK'
  <2>1. \A u \in Tab : /\ path'[u] = "private" => tok'[u] # None
                       /\ view'[u] # None => path'[u] = "private"
    BY <1>1, <1>2, ShowStep DEF TypeOK
  <2>2. flight' \subseteq Request
    BY <1>1, <1>2 DEF TypeOK, WithoutQueries
  <2> QED BY <1>1, <1>2, <2>1, <2>2, ShowStep DEF TypeOK
<1>4. NamedTokens'
  BY <1>1 DEF WInv, NamedTokens, WithoutQueries
<1>5. QueriesArePrivate'
  <2> SUFFICES ASSUME NEW r \in flight', r.kind = "query" PROVE path'[r.tab] = "private"
    BY DEF QueriesArePrivate
  <2>1. r \in flight /\ r.tab \in Tab \ {t}
    BY <1>1, <1>2 DEF TypeOK, Request, WithoutQueries
  <2> QED BY <1>1, <1>2, <2>1, ShowStep DEF WInv, QueriesArePrivate
<1> QED BY <1>3, <1>4, <1>5 DEF WInv

(* What a storage event says. *)
LEMMA HeadIsToken ==
  ASSUME WInv, NEW t \in Tab, events[t] # <<>>
  PROVE  /\ Head(events[t]) \in MaybeToken /\ Named(Head(events[t]), users)
         /\ Tail(events[t]) \in Seq(MaybeToken)
         /\ \A i \in DOMAIN Tail(events[t]) : i + 1 \in DOMAIN events[t] /\ Tail(events[t])[i] = events[t][i + 1]
<1>1. events[t] \in Seq(MaybeToken) /\ 1 \in DOMAIN events[t]
  BY DEF WInv, TypeOK, MaybeToken
<1>2. Head(events[t]) = events[t][1]
  BY <1>1
<1> QED BY <1>1, <1>2, HeadTailProperties DEF WInv, NamedTokens

(* A tab hears of what another tab has done. *)
LEMMA OnStorageStep == ASSUME WInv, NEW t \in Tab, OnStorage(t) PROVE WInv'
<1> PICK k \in MaybeToken : k = Head(events[t]) /\ Named(k, users)
  BY HeadIsToken DEF OnStorage
<1>1. /\ events[t] # <<>> /\ events' = [events EXCEPT ![t] = Tail(events[t])]
      /\ UNCHANGED <<users, now, storage, forms>>
  BY DEF OnStorage
<1>2. \/ UNCHANGED <<tok, timer, path, view, flight>>
      \/ /\ SetToken(t, k)
         /\ \/ /\ Show(t, "private", None) /\ k = None
               /\ flight' = WithoutQueries(t, flight)
            \/ UNCHANGED <<path, view, flight>> /\ (k = None => path[t] # "private")
  BY DEF OnStorage
<1>3. TypeOK
  BY DEF WInv
<1>4. /\ tok' \in [Tab -> MaybeToken] /\ timer' \in [Tab -> Nat \cup {None}]
      /\ \A u \in Tab : timer'[u] = None <=> tok'[u] = None
      /\ tok'[t] \in {tok[t], k} /\ \A u \in Tab \ {t} : tok'[u] = tok[u]
  BY <1>2, <1>3, SetTokenStep DEF TypeOK, MaybeToken
<1>5. /\ path' \in [Tab -> {"public", "private"}] /\ view' \in [Tab -> Account \cup {None}]
      /\ \A u \in Tab : /\ path'[u] = "private" => tok'[u] # None
                        /\ view'[u] # None => path'[u] = "private"
                        /\ u # t => path'[u] = path[u]
  BY <1>2, <1>3, <1>4, SetTokenStep, ShowStep DEF TypeOK
<1>6. flight' \subseteq flight
  BY <1>2 DEF WithoutQueries
<1>7. events' \in [Tab -> Seq(MaybeToken)]
  BY <1>1, <1>3, HeadIsToken DEF TypeOK, MaybeToken
<1>8. TypeOK'
  BY <1>1, <1>3, <1>4, <1>5, <1>6, <1>7 DEF TypeOK, MaybeToken
<1>9. \A u \in Tab : \A i \in DOMAIN events'[u] : \E j \in DOMAIN events[u] : events'[u][i] = events[u][j]
  BY <1>1, <1>3, HeadIsToken DEF TypeOK
<1>10. \A r \in flight' : r.kind = "query" => path'[r.tab] = "private"
  <2> SUFFICES ASSUME NEW r \in flight', r.kind = "query" PROVE path'[r.tab] = "private"
    OBVIOUS
  <2>1. r.tab \in Tab /\ path[r.tab] = "private"
    BY <1>3, <1>6 DEF TypeOK, Request, WInv, QueriesArePrivate
  <2>2. CASE UNCHANGED path
    BY <2>1, <2>2
  <2>3. CASE flight' = WithoutQueries(t, flight)
    BY <1>5, <2>1, <2>3 DEF WithoutQueries
  <2> QED BY <1>2, <2>2, <2>3
<1>11. users' = users /\ Named(k, users') /\ storage' = storage /\ \A u \in Tab : tok'[u] \in {tok[u], k}
  BY <1>1, <1>4
<1> QED BY <1>6, <1>8, <1>9, <1>10, <1>11, TokensMove

(* A request is sent, with a token from localStorage or with a form. *)
LEMMA SendStep ==
  ASSUME WInv, NEW t \in Tab, Store(t, Stored), UNCHANGED <<users, now, tok, timer, path, view>>,
         forms' \in 0..MaxForms, NEW q \in Request, flight' = flight \cup {q}, q.tab = t,
         q.kind = "query" => path[t] = "private",
         q.kind \in {"query", "mutation"} => q.with = Stored
  PROVE  WInv'
<1>1. TypeOK /\ Stored \in MaybeToken /\ Named(Stored, users)
  BY KnownTokens DEF WInv
<1>2. TypeOK'
  BY <1>1, StoreStep DEF TypeOK, MaybeToken
<1>3. \A r \in flight' : r.kind = "query" => path'[r.tab] = "private"
  BY DEF WInv, QueriesArePrivate
<1> QED BY <1>1, <1>2, <1>3, StoreStep, TokensMove

LEMMA AskStep == ASSUME WInv, NEW t \in Tab, NEW kind \in {"query", "mutation"}, Ask(t, kind) PROVE WInv'
<1> DEFINE q == [tab |-> t, kind |-> kind, with |-> Stored]
<1>1. q \in Request /\ q.tab = t /\ q.kind = kind /\ q.with = Stored
  BY KnownTokens DEF Request, MaybeToken
<1>2. /\ Store(t, Stored) /\ UNCHANGED <<users, now, tok, timer, path, view>> /\ flight' = flight \cup {q}
      /\ kind = "query" => path[t] = "private"
      /\ forms' \in 0..MaxForms
  BY DEF Ask, WInv, TypeOK
<1> HIDE DEF q
<1> QED BY <1>1, <1>2, SendStep

LEMMA SubmitStep ==
  ASSUME WInv, NEW t \in Tab, NEW kind \in {"login", "check"}, NEW a \in Account, Submit(t, kind, a)
  PROVE  WInv'
<1> DEFINE q == [tab |-> t, kind |-> kind, with |-> a]
<1>1. q \in Request /\ q.tab = t /\ q.kind \notin {"query", "mutation"}
  BY DEF Request
<1>2. /\ Store(t, Stored) /\ UNCHANGED <<users, now, tok, timer, path, view>> /\ flight' = flight \cup {q}
      /\ forms' \in 0..MaxForms
  BY FormsType DEF Submit, WInv, TypeOK
<1> HIDE DEF q
<1> QED BY <1>1, <1>2, SendStep

(* An answer that leaves the session as it is. *)
LEMMA AnswerStep ==
  ASSUME WInv, NEW r \in flight, Guarded(r) \/ Check(r) \/ Fail(r)
  PROVE  WInv'
<1>1. TypeOK /\ r \in Request /\ r.tab \in Tab
  BY DEF WInv, TypeOK, Request
<1>2. UNCHANGED <<now, storage, tok, timer, path, events, forms>> /\ users \subseteq users' /\ users' \subseteq Account
  BY <1>1, InsertedStep DEF Guarded, Check, Fail, TypeOK
<1>3. \A q \in flight' : /\ q \in Request
                         /\ q \in flight \/ q.kind = "insert"
  <2>1. r.kind = "check" => [r EXCEPT !.kind = "insert"] \in Request /\ [r EXCEPT !.kind = "insert"].kind = "insert"
    BY <1>1 DEF Request
  <2> QED BY <1>1, <2>1 DEF Guarded, Check, Fail, TypeOK
<1>4. view' \in [Tab -> Account \cup {None}] /\ \A t \in Tab : view'[t] # None => path[t] = "private"
  <2>1. CASE UNCHANGED view
    BY <1>1, <2>1 DEF TypeOK
  <2>2. CASE Guarded(r) /\ r.kind = "query"
    <3>1. r.with.sub \in Account
      BY <1>1, <2>2 DEF Guarded, Valid, Request, Token
    <3>2. path[r.tab] = "private"
      BY <2>2 DEF WInv, QueriesArePrivate
    <3> QED BY <1>1, <2>2, <3>1, <3>2 DEF Guarded, TypeOK
  <2> QED BY <2>1, <2>2 DEF Guarded, Check, Fail
<1>5. TypeOK'
  BY <1>1, <1>2, <1>3, <1>4 DEF TypeOK
<1>6. NamedTokens' /\ QueriesArePrivate'
  BY <1>2, <1>3 DEF WInv, NamedTokens, Named, QueriesArePrivate
<1> QED BY <1>5, <1>6 DEF WInv

(* Every step of the tabs, of the gateway and of user-svc keeps the invariant. *)
LEMMA NextWInv == WInv /\ [Next]_vars => WInv'
<1> SUFFICES ASSUME WInv, [Next]_vars PROVE WInv'
  OBVIOUS
<1>1. ASSUME NEW t \in Tab, LogOut(t) \/ Timeout(t) PROVE WInv'
  BY <1>1, SignedOutStep DEF LogOut, Timeout
<1>2. ASSUME NEW r \in flight, Unauthenticated(r) \/ WrongPassword(r) PROVE WInv'
  <2>1. r.tab \in Tab
    BY DEF WInv, TypeOK, Request
  <2> QED BY <1>2, <2>1, SignedOutStep DEF Unauthenticated, WrongPassword
<1>3. ASSUME NEW r \in flight, Login(r) \/ Register(r) PROVE WInv'
  <2>1. r.tab \in Tab /\ TypeOK
    BY DEF WInv, TypeOK, Request
  <2>2. users \subseteq users' /\ users' \subseteq Account /\ r.with \in users'
    BY <1>3, <2>1, InsertedStep DEF Login, Register, Authentic, TypeOK
  <2> QED BY <1>3, <2>1, <2>2, SignedInStep DEF Login, Register
<1>4. ASSUME Tick PROVE WInv'
  <2>1. TypeOK'
    BY <1>4, MaxTimeType DEF Tick, WInv, TypeOK
  <2> QED BY <1>4, <2>1 DEF Tick, WInv, NamedTokens, QueriesArePrivate
<1>5. CASE UNCHANGED vars
  BY <1>5 DEF vars, WInv, TypeOK, NamedTokens, QueriesArePrivate
<1> QED BY <1>1, <1>2, <1>3, <1>4, <1>5, LoadStep, VisitStep, OnStorageStep, AskStep, SubmitStep,
           AnswerStep DEF Next, Answer

-------------------------------------------------------------------------------
LEMMA Invariant == Spec => []WInv
BY InitWInv, NextWInv, PTL DEF Spec

(* The variables of the session keep their types: a tab has a timer exactly    *)
(* while it has a token, and shows a private page only with one                *)
(* (AuthContext.tsx, RequireAuth).                                             *)
THEOREM TypeCorrect == Spec => []TypeOK
<1>1. WInv => TypeOK
  BY DEF WInv
<1> QED BY Invariant, <1>1, PTL

(* Wherever a token is, in whatever order answers and storage events come, it *)
(* names a row of users: the loser of a race for an e-mail (user.entity.ts:13) *)
(* signs nobody in.                                                           *)
THEOREM TokensNameAccountsHolds == Spec => []TokensNameAccounts
<1>1. WInv => TokensNameAccounts
  <2> SUFFICES ASSUME WInv, NEW k \in Held, k # None PROVE k.sub \in users
    BY DEF TokensNameAccounts
  <2>1. CASE k = storage \/ \E t \in Tab : k = tok[t]
    BY <2>1 DEF WInv, NamedTokens, Named
  <2>2. CASE \E t \in Tab : \E i \in DOMAIN events[t] : k = events[t][i]
    BY <2>2 DEF WInv, NamedTokens, Named
  <2>3. CASE \E r \in flight : r.kind \in {"query", "mutation"} /\ k = r.with
    BY <2>3 DEF WInv, NamedTokens, Named
  <2> QED BY <2>1, <2>2, <2>3 DEF Held
<1> QED BY Invariant, <1>1, PTL

(* A session whose token is valid ends by a click on Log out, by what concerns *)
(* another token, by the clamp of the timer (AuthContext.tsx:56) or by a wrong *)
(* password, and never because its token was taken for an expired one.        *)
THEOREM ValidSessionEndsForAReasonHolds == Spec => ValidSessionEndsForAReason
<1> DEFINE Reason == \/ \E t \in Tab : LogOut(t)
                     \/ \E t \in Tab : Timeout(t) /\ (tok[t] # storage \/ timer[t] < storage.exp)
                     \/ \E r \in flight : WrongPassword(r)
                     \/ \E r \in flight : Unauthenticated(r) /\ r.with # storage
<1>1. WInv /\ [Next]_vars => [EndOfValidSession => Reason]_vars
  <2> SUFFICES ASSUME WInv, Next, Valid(storage), storage' = None PROVE Reason
    BY DEF EndOfValidSession
  <2>1. Stored = storage /\ storage # None
    BY DEF Valid, Stored
  <2>2. ASSUME NEW t \in Tab, Timeout(t) PROVE timer[t] < storage.exp
    <3>1. now < storage.exp /\ now \in Nat /\ storage.exp \in Nat /\ timer[t] \in Nat
      BY <2>1, <2>2, LifetimeType, MaxTimeType DEF WInv, TypeOK, Valid, Expired, Timeout, Token
    <3> QED BY <2>2, <3>1 DEF Timeout
  <2>3. ASSUME NEW r \in flight, Unauthenticated(r) PROVE r.with # storage
    BY <2>3 DEF Unauthenticated
  <2>4. ASSUME NEW t \in Tab,
               \/ \E p \in {"public", "private"} : Load(t, p) \/ Visit(t, p)
               \/ OnStorage(t)
               \/ \E kind \in {"query", "mutation"} : Ask(t, kind)
               \/ \E kind \in {"login", "check"}, a \in Account : Submit(t, kind, a)
        PROVE  storage' = storage
    BY <2>1, <2>4 DEF Load, Visit, OnStorage, Ask, Submit, Store
  <2>5. ASSUME NEW r \in flight, Guarded(r) \/ Check(r) \/ Fail(r) PROVE storage' = storage
    BY <2>5 DEF Guarded, Check, Fail
  <2>6. ASSUME NEW r \in flight, Login(r) \/ Register(r) PROVE storage' # None
    <3>1. r.with \in Account /\ TypeOK /\ MayIssue
      BY <2>6 DEF WInv, TypeOK, Request, Login, Register
    <3> QED BY <2>6, <3>1, IssuedIsToken DEF Login, Register, SignedIn, Store
  <2>7. ASSUME Tick PROVE storage' = storage
    BY <2>7 DEF Tick
  <2> QED BY <2>1, <2>2, <2>3, <2>4, <2>5, <2>6, <2>7 DEF Next, Answer
<1> QED BY Invariant, <1>1, PTL DEF Spec, ValidSessionEndsForAReason

-------------------------------------------------------------------------------
(* The queries of a tab and what it shows. *)
LEMMA SubjectsOf ==
  ASSUME NEW t \in Tab, NEW a
  PROVE  a \in Subjects(t) <=>
           \/ a = view[t]
           \/ \E r \in flight : r.tab = t /\ r.kind = "query" /\ r.with # None /\ a = r.with.sub
BY DEF Subjects

(* Without a new query, new data or a new token a tab does not become mixed. *)
LEMMA NotMixed ==
  ASSUME NEW t \in Tab, ~Mixed(t), tok'[t] = tok[t],
         view'[t] \in Subjects(t) \cup {None},
         \A r \in flight' : r.tab = t /\ r.kind = "query" => r \in flight
  PROVE  ~Mixed(t)'
<1>1. Subjects(t)' \subseteq Subjects(t) \cup {None}
  <2> SUFFICES ASSUME NEW a \in Subjects(t)', a # view'[t] PROVE a \in Subjects(t)
    OBVIOUS
  <2>1. PICK r \in flight' : r.tab = t /\ r.kind = "query" /\ r.with # None /\ a = r.with.sub
    BY DEF Subjects
  <2> QED BY <2>1, SubjectsOf
<1> QED BY <1>1 DEF Mixed

(* A tab without data and queries is not mixed. *)
LEMMA EmptyTab ==
  ASSUME NEW t \in Tab, view'[t] = None, \A r \in flight' : ~(r.tab = t /\ r.kind = "query")
  PROVE  ~Mixed(t)'
BY DEF Mixed, Subjects

(* What a sign-out does to the tab where it happens, and to the others. *)
LEMMA SignedOutNotMixed ==
  ASSUME WInv, NEW t \in Tab, NEW u \in Tab, NEW F \in SUBSET flight, SignedOut(u, F), ~Mixed(t)
  PROVE  ~Mixed(t)'
<1>1. SetToken(u, None) /\ Show(u, "public", None) /\ flight' = WithoutQueries(u, F) /\ TypeOK
  BY DEF SignedOut, WInv
<1>2. CASE t = u
  BY <1>1, <1>2, ShowStep, EmptyTab DEF WithoutQueries
<1>3. CASE t # u
  <2>1. tok'[t] = tok[t] /\ view'[t] = view[t]
    BY <1>1, <1>3, SetTokenStep, ShowStep DEF MaybeToken
  <2>2. view[t] \in Subjects(t) /\ flight' \subseteq flight
    BY <1>1 DEF Subjects, WithoutQueries
  <2> QED BY <2>1, <2>2, NotMixed
<1> QED BY <1>2, <1>3

(* What a tab does to the data that it, or another tab, shows. *)
LEMMA TabNotMixed ==
  ASSUME WInv, NEW t \in Tab, NEW u \in Tab, ~Mixed(t),
         \/ \E p \in {"public", "private"} : Load(u, p) \/ Visit(u, p)
         \/ LogOut(u) \/ Timeout(u)
         \/ Ask(u, "mutation") \/ (u # t /\ Ask(u, "query"))
         \/ \E kind \in {"login", "check"}, a \in Account : Submit(u, kind, a)
         \/ (u # t /\ OnStorage(u))
  PROVE  ~Mixed(t)'
<1>1. TypeOK /\ view[t] \in Subjects(t)
  BY DEF WInv, Subjects
<1>2. ASSUME NEW p \in {"public", "private"}, Load(u, p) \/ Visit(u, p) PROVE ~Mixed(t)'
  <2>1. \E k : Show(u, p, k)
    BY <1>2 DEF Load, Visit
  <2>2. \A v \in Tab \ {u} : tok'[v] = tok[v] /\ view'[v] = view[v]
    BY <1>1, <1>2, <2>1, ShowStep DEF Load, Visit, TypeOK
  <2>3. view'[u] = None /\ \A r \in flight' : r \in flight /\ ~(r.tab = u /\ r.kind = "query")
    BY <1>1, <1>2, <2>1, ShowStep DEF Load, Visit, WithoutQueries
  <2>4. CASE t = u
    BY <2>3, <2>4, EmptyTab
  <2>5. CASE t # u
    BY <1>1, <2>2, <2>3, <2>5, NotMixed
  <2> QED BY <2>4, <2>5
<1>3. CASE LogOut(u) \/ Timeout(u)
  BY <1>3, SignedOutNotMixed DEF LogOut, Timeout
<1>4. CASE Ask(u, "mutation") \/ (u # t /\ Ask(u, "query"))
  <2>1. UNCHANGED <<tok, view>> /\ \A r \in flight' : r.tab = t /\ r.kind = "query" => r \in flight
    BY <1>4 DEF Ask
  <2> QED BY <1>1, <2>1, NotMixed
<1>5. ASSUME NEW kind \in {"login", "check"}, NEW a \in Account, Submit(u, kind, a) PROVE ~Mixed(t)'
  <2>1. UNCHANGED <<tok, view>> /\ \A r \in flight' : r.kind = "query" => r \in flight
    BY <1>5 DEF Submit
  <2> QED BY <1>1, <2>1, NotMixed
<1>6. CASE u # t /\ OnStorage(u)
  <2>1. Head(events[u]) \in MaybeToken
    BY <1>6, HeadIsToken DEF OnStorage
  <2>2. tok'[t] = tok[t] /\ flight' \subseteq flight
    BY <1>1, <1>6, <2>1, SetTokenStep DEF OnStorage, WithoutQueries
  <2>3. view'[t] = view[t]
    BY <1>1, <1>6, ShowStep DEF OnStorage
  <2> QED BY <1>1, <2>2, <2>3, NotMixed
<1> QED BY <1>2, <1>3, <1>4, <1>5, <1>6

(* What an answer does to the data that a tab shows. *)
LEMMA AnswerNotMixed ==
  ASSUME WInv, NEW t \in Tab, NEW r \in flight, ~Mixed(t), Answer(r),
         ~(path[t] = "private" /\ r.tab = t /\ (Login(r) \/ Register(r)))
  PROVE  ~Mixed(t)'
<1>1. TypeOK /\ view[t] \in Subjects(t) /\ r \in Request /\ r.tab \in Tab
  BY DEF WInv, Subjects, TypeOK, Request
<1>2. CASE Guarded(r)
  <2>1. tok' = tok /\ flight' \subseteq flight
    BY <1>2 DEF Guarded
  <2>2. view'[t] \in Subjects(t)
    <3>1. CASE r.kind = "query" /\ r.tab = t
      BY <1>1, <1>2, <3>1, SubjectsOf DEF Guarded, Valid, TypeOK
    <3>2. CASE ~(r.kind = "query" /\ r.tab = t)
      BY <1>1, <1>2, <3>2 DEF Guarded, TypeOK
    <3> QED BY <3>1, <3>2
  <2> QED BY <2>1, <2>2, NotMixed
<1>3. CASE Unauthenticated(r) \/ WrongPassword(r)
  BY <1>1, <1>3, SignedOutNotMixed DEF Unauthenticated, WrongPassword
<1>4. CASE Check(r) \/ Fail(r)
  <2>1. UNCHANGED <<tok, view>> /\ \A q \in flight' : q.kind = "query" => q \in flight
    BY <1>1, <1>4 DEF Check, Fail, Request
  <2> QED BY <1>1, <2>1, NotMixed
<1>5. CASE Login(r) \/ Register(r)
  <2>1. Issued(r.with) \in MaybeToken /\ SignedIn(r.tab, r.with, flight \ {r})
    BY <1>1, <1>5, IssuedIsToken DEF Login, Register, Request, MaybeToken
  <2>2. /\ \A v \in Tab \ {r.tab} : tok'[v] = tok[v] /\ view'[v] = view[v]
        /\ flight' \subseteq flight
    BY <1>1, <2>1, SetTokenStep, ShowStep DEF SignedIn, WithoutQueries
  <2>3. CASE r.tab # t
    BY <1>1, <2>2, <2>3, NotMixed
  <2>4. CASE r.tab = t
    <3>1. path[t] = "public"
      BY <1>1, <1>5, <2>4 DEF TypeOK
    <3>2. \E p \in {"public", "private"} : Show(t, p, Issued(r.with)) /\ flight' = WithoutQueries(t, flight \ {r})
      BY <2>1, <2>4, <3>1 DEF SignedIn
    <3> QED BY <1>1, <3>2, ShowStep, EmptyTab DEF WithoutQueries
  <2> QED BY <2>3, <2>4
<1> QED BY <1>2, <1>3, <1>4, <1>5 DEF Answer

(* A tab mixes the data of two users only by a sign-in in another tab, or by an *)
(* answer to a sign-in that the user did not wait for (AuthContext.tsx:44 and  *)
(* LoginPage.tsx), however many tabs there are.                                *)
THEOREM MixedByAnotherSignInHolds == Spec => MixedByAnotherSignIn
<1> DEFINE Reason(t) ==
             \/ tok'[t] # None /\ <<tok'[t]>> \o events'[t] = events[t]
             \/ Ask(t, "query") /\ storage \notin {None, tok[t]}
             \/ path[t] = "private" /\ \E r \in flight : r.tab = t /\ (Login(r) \/ Register(r))
<1>1. WInv /\ [Next]_vars => [\A t \in Tab : ~Mixed(t) /\ Mixed(t)' => Reason(t)]_vars
  <2> SUFFICES ASSUME WInv, Next, NEW t \in Tab, ~Mixed(t), Mixed(t)' PROVE Reason(t)
    OBVIOUS
  <2>1. CASE Ask(t, "query")
    <3>1. PICK a \in Subjects(t)' : a # None /\ (tok[t] = None \/ tok[t].sub # a)
      BY <2>1 DEF Mixed, Ask
    <3>2. tok[t] # None /\ view' = view /\ flight' = flight \cup {[tab |-> t, kind |-> "query", with |-> Stored]}
      BY <2>1 DEF Ask
    <3>3. a \notin Subjects(t)
      BY <3>1 DEF Mixed
    <3>4. Stored # None /\ a = Stored.sub
      <4>1. a # view'[t]
        BY <3>2, <3>3 DEF Subjects
      <4>2. PICK r \in flight' : r.tab = t /\ r.kind = "query" /\ r.with # None /\ a = r.with.sub
        BY <4>1 DEF Subjects
      <4>3. r \notin flight
        BY <3>3, <4>2, SubjectsOf
      <4> QED BY <3>2, <4>2, <4>3
    <3>5. storage # None /\ storage = Stored
      BY <3>4 DEF Stored, Valid
    <3> QED BY <2>1, <3>1, <3>2, <3>4, <3>5
  <2>2. CASE OnStorage(t)
    <3>1. /\ TypeOK /\ events[t] # <<>> /\ events[t] \in Seq(MaybeToken) /\ Head(events[t]) \in MaybeToken
          /\ view[t] \in Subjects(t)
      BY <2>2, HeadIsToken DEF OnStorage, WInv, TypeOK, MaybeToken, Subjects
    <3>2. events'[t] = Tail(events[t])
      BY <2>2, <3>1 DEF OnStorage, TypeOK
    <3>3. CASE UNCHANGED <<tok, view, flight>>
      BY <3>1, <3>3, NotMixed
    <3>4. CASE SetToken(t, Head(events[t])) /\ Head(events[t]) # None
      <4>1. tok'[t] = Head(events[t])
        BY <3>1, <3>4, SetTokenStep
      <4>2. <<Head(events[t])>> \o Tail(events[t]) = events[t]
        BY <3>1
      <4> QED BY <3>2, <3>4, <4>1, <4>2
    <3>5. CASE path[t] = "private" /\ Show(t, "private", None) /\ flight' = WithoutQueries(t, flight)
      BY <3>1, <3>5, ShowStep, EmptyTab DEF WithoutQueries
    <3>6. CASE path[t] # "private" /\ UNCHANGED <<path, view, flight>>
      <4>1. view'[t] = None /\ \A r \in flight' : ~(r.tab = t /\ r.kind = "query")
        BY <3>1, <3>6 DEF WInv, TypeOK, QueriesArePrivate
      <4> QED BY <4>1, EmptyTab
    <3> QED BY <2>2, <3>3, <3>4, <3>5, <3>6 DEF OnStorage
  <2>3. ASSUME NEW u \in Tab,
               \/ \E p \in {"public", "private"} : Load(u, p) \/ Visit(u, p)
               \/ LogOut(u) \/ OnStorage(u) \/ Timeout(u)
               \/ \E kind \in {"query", "mutation"} : Ask(u, kind)
               \/ \E kind \in {"login", "check"}, a \in Account : Submit(u, kind, a)
        PROVE  Reason(t)
    BY <2>1, <2>2, <2>3, TabNotMixed
  <2>4. ASSUME NEW r \in flight, Answer(r) PROVE Reason(t)
    BY <2>4, AnswerNotMixed
  <2>5. CASE Tick
    BY <2>5 DEF Tick, Mixed, Subjects
  <2> QED BY <2>3, <2>4, <2>5 DEF Next
<1> QED BY Invariant, <1>1, PTL DEF Spec, MixedByAnotherSignIn

-------------------------------------------------------------------------------
(* What SignedOutEverywhere rests on where no storage event helps: a tab's     *)
(* timer is never set for later than the expiry of the token the tab holds.    *)
TimersCover == \A t \in Tab : tok[t] # None => timer[t] <= tok[t].exp

(* A tab that holds an expired token has a timer that is due.                  *)
ExpiredIsDue == \A t \in Tab : tok[t] # None /\ Expired(tok[t]) => timer[t] # None /\ now >= timer[t]

LEMMA DueIsNotLate ==
  ASSUME TypeOK, NEW k \in Token, k # None
  PROVE  Due(k) <= k.exp
<1>1. k.exp \in Nat /\ now + MaxTimeout \in Nat
  BY ClampType, LifetimeType, MaxTimeType DEF Token, TypeOK
<1> QED BY <1>1 DEF Due

(* The effect that restarts the timer keeps up with the token. *)
LEMMA SetTokenCovers ==
  ASSUME TypeOK, TimersCover, NEW t \in Tab, NEW k \in MaybeToken, SetToken(t, k)
  PROVE  TimersCover'
<1> SUFFICES ASSUME NEW u \in Tab, tok'[u] # None PROVE timer'[u] <= tok'[u].exp
  BY DEF TimersCover
<1>1. CASE u = t /\ k # tok[t]
  BY <1>1, DueIsNotLate DEF SetToken, TypeOK, MaybeToken
<1>2. CASE u # t \/ k = tok[t]
  BY <1>2 DEF SetToken, TypeOK, TimersCover
<1> QED BY <1>1, <1>2

LEMMA NextTimersCover == WInv /\ TimersCover /\ [Next]_vars => TimersCover'
<1> SUFFICES ASSUME WInv, TimersCover, [Next]_vars PROVE TimersCover'
  OBVIOUS
<1>0. TypeOK /\ None \in MaybeToken /\ Stored \in MaybeToken /\ \A r \in flight : r.tab \in Tab
  BY KnownTokens DEF WInv, TypeOK, Request
<1>1. CASE UNCHANGED <<tok, timer>>
  BY <1>1 DEF TimersCover
<1>2. ASSUME NEW t \in Tab, NEW F, SignedOut(t, F) PROVE TimersCover'
  BY <1>0, <1>2, SetTokenCovers DEF SignedOut
<1>3. ASSUME NEW r \in flight, Login(r) \/ Register(r) PROVE TimersCover'
  <2>1. MayIssue /\ r.with \in Account /\ SetToken(r.tab, Issued(r.with))
    BY <1>0, <1>3 DEF Login, Register, SignedIn, TypeOK, Request
  <2> QED BY <1>0, <2>1, IssuedIsToken, SetTokenCovers DEF MaybeToken
<1>4. ASSUME NEW t \in Tab, NEW p \in {"public", "private"}, Load(t, p) PROVE TimersCover'
  <2>1. tok' = [tok EXCEPT ![t] = Stored] /\ timer' = [timer EXCEPT ![t] = Due(Stored)]
    BY <1>4 DEF Load
  <2>2. Stored # None => Due(Stored) <= Stored.exp
    BY <1>0, DueIsNotLate DEF MaybeToken
  <2> QED BY <1>0, <2>1, <2>2 DEF TypeOK, TimersCover
<1>5. ASSUME NEW t \in Tab, OnStorage(t) PROVE TimersCover'
  <2> DEFINE k == Head(events[t])
  <2>1. k \in MaybeToken
    BY <1>5, HeadIsToken DEF OnStorage
  <2>2. UNCHANGED <<tok, timer>> \/ SetToken(t, k)
    BY <1>5 DEF OnStorage
  <2> HIDE DEF k
  <2> QED BY <1>0, <1>1, <2>1, <2>2, SetTokenCovers
<1>6. ASSUME NEW t \in Tab, LogOut(t) \/ Timeout(t) PROVE TimersCover'
  BY <1>2, <1>6 DEF LogOut, Timeout
<1>7. ASSUME NEW r \in flight, Unauthenticated(r) \/ WrongPassword(r) PROVE TimersCover'
  BY <1>0, <1>2, <1>7 DEF Unauthenticated, WrongPassword
<1>8. ASSUME NEW t \in Tab,
             \/ \E p \in {"public", "private"} : Visit(t, p)
             \/ \E kind \in {"query", "mutation"} : Ask(t, kind)
             \/ \E kind \in {"login", "check"}, a \in Account : Submit(t, kind, a)
      PROVE  TimersCover'
  BY <1>1, <1>8 DEF Visit, Ask, Submit
<1>9. ASSUME NEW r \in flight, Guarded(r) \/ Check(r) \/ Fail(r) PROVE TimersCover'
  BY <1>1, <1>9 DEF Guarded, Check, Fail
<1>10. CASE Tick \/ UNCHANGED vars
  BY <1>1, <1>10 DEF Tick, vars
<1> QED BY <1>3, <1>4, <1>5, <1>6, <1>7, <1>8, <1>9, <1>10 DEF Next, Answer

(* A token never outlives its timer: whatever tokens come and go in a tab, by  *)
(* sign-ins, loads and storage events in any order, and whatever the clamp     *)
(* (AuthContext.tsx), a tab with an expired token has a timer that is due.     *)
THEOREM ExpiredIsDueHolds == Spec => []ExpiredIsDue
<1>1. Init => TimersCover
  BY DEF Init, TimersCover
<1>2. WInv /\ TimersCover => ExpiredIsDue
  <2> SUFFICES ASSUME TypeOK, TimersCover, NEW t \in Tab, tok[t] # None, now >= tok[t].exp
               PROVE  timer[t] # None /\ now >= timer[t]
    BY DEF ExpiredIsDue, Expired, WInv
  <2>1. timer[t] # None /\ timer[t] <= tok[t].exp /\ timer[t] \in Nat
    BY DEF TypeOK, TimersCover
  <2>2. tok[t].exp \in Nat /\ now \in Nat
    BY MaxTimeType, LifetimeType DEF TypeOK, Token
  <2> QED BY <2>1, <2>2
<1> QED BY <1>1, <1>2, InitWInv, NextWInv, NextTimersCover, PTL DEF Spec
===============================================================================
