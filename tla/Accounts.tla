------------------------------- MODULE Accounts -------------------------------
(***************************************************************************)
(* user-svc: the table of users and the two operations on it, and the JWTs *)
(* it signs.  An account is its e-mail and password (rows never change,    *)
(* and the unique index makes the e-mail stand for the id).  The clock     *)
(* counts in the unit of the token's lifetime.                             *)
(***************************************************************************)
EXTENDS Naturals

CONSTANTS Email, Password,
          Account,    \* what users register with and log in with
          Lifetime,   \* JWT_EXPIRES
          MaxTime     \* bound: the clock

ASSUME AccountType == Account \subseteq [email : Email, password : Password]
ASSUME LifetimeType == Lifetime \in Nat \ {0}
ASSUME MaxTimeType == MaxTime \in Nat

VARIABLES users,   \* the rows of table users
          now      \* the clock that every process reads

Token == [sub : Account, exp : 0..(MaxTime + Lifetime)]

(* findOne by e-mail. *)
Registered(a) == \E u \in users : u.email = a.email

(* save in register: the INSERT passes the unique index or fails, a 500. *)
InsertedAnywayBug(a) == users' = IF Registered(a) THEN users ELSE users \cup {a}

Inserted(a) == ~Registered(a) /\ users' = users \cup {a}

(* login: findOne, bcrypt.compare. *)
Authentic(a) == a \in users

(* issueTokens *)
Issued(a) == [sub |-> a, exp |-> now + Lifetime]

(* isTokenExpired in the client and jwt.verify in the gateway's guard. *)
Expired(k) == now >= k.exp
===============================================================================
