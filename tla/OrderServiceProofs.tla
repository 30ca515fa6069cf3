-------------------------- MODULE OrderServiceProofs --------------------------
(***************************************************************************)
(* Proofs about OrderService for any number of pods, callers, messages and *)
(* keys.  The invariants the runs check are not inductive one by one; IInv *)
(* joins them with what a transaction in progress knows of its own rows.   *)
(***************************************************************************)
EXTENDS OrderService, TLAPS

(* A call in progress has its arguments. *)
CallsHaveArguments == \A w \in Worker : pc[w] # "idle" => req[w] \in Request

(* The uuid of an uncommitted order is nobody else's. *)
PendingIdsAreFresh ==
  \A w \in Worker : pc[w] \in InsertedAt =>
    /\ ord[w] \in OrderId
    /\ \A o \in orders : o.id # ord[w]
    /\ \A v \in Worker \ {w} : pc[v] \in InsertedAt => ord[v] # ord[w]

IInv == /\ TypeOK
        /\ CallsHaveArguments
        /\ PendingIdsAreFresh
        /\ OneOrderPerCorrelation
        /\ KeysAndOrdersAgree
        /\ SaveNeverOverwrites
        /\ OnePublisherPerOrder
        /\ AnswersAreCommitted

USE DEF InsertedAt, InTx, Label, Row, dbVars

(* The empty database satisfies the inductive invariant. *)
LEMMA InitIInv == Init => IInv
<1> SUFFICES ASSUME Init PROVE IInv
  OBVIOUS
<1>1. TypeOK
  BY CopiesType DEF Init, TypeOK
<1>2. CallsHaveArguments /\ PendingIdsAreFresh /\ SaveNeverOverwrites
  BY DEF Init, CallsHaveArguments, PendingIdsAreFresh, SaveNeverOverwrites
<1>3. OneOrderPerCorrelation /\ KeysAndOrdersAgree
  BY RequestType DEF Init, OneOrderPerCorrelation, KeysAndOrdersAgree
<1>4. OnePublisherPerOrder /\ AnswersAreCommitted
  BY DEF Init, OnePublisherPerOrder, AnswersAreCommitted
<1> QED BY <1>1, <1>2, <1>3, <1>4 DEF IInv

(* A step that leaves the tables and the topic alone and moves one worker     *)
(* between labels outside the transaction's tail keeps the invariant, when    *)
(* what the worker now holds is what the label promises.                      *)
LEMMA LocalStep ==
  ASSUME IInv, NEW w \in Worker, NEW l \in Label, NEW q \in Request \cup {None},
         NEW a \in OrderId \cup {None},
         pc' = [pc EXCEPT ![w] = l], req' = [req EXCEPT ![w] = q],
         ord' = [ord EXCEPT ![w] = a], UNCHANGED <<dbVars, events, ready>>,
         l \notin InsertedAt \cup {"emit"},
         l # "idle" => q \in Request,
         l = "reply" => \E o \in orders : o.id = a /\ Corr[o.msg] = Corr[q.msg]
  PROVE  IInv'
<1>1. TypeOK'
  BY DEF IInv, TypeOK
<1>2. CallsHaveArguments'
  BY DEF IInv, TypeOK, CallsHaveArguments
<1>3. PendingIdsAreFresh'
  BY DEF IInv, TypeOK, PendingIdsAreFresh
<1>4. OneOrderPerCorrelation' /\ KeysAndOrdersAgree'
  BY DEF IInv, OneOrderPerCorrelation, KeysAndOrdersAgree
<1>5. SaveNeverOverwrites'
  BY DEF IInv, TypeOK, SaveNeverOverwrites, CorrHeld, CorrTaken, CorrOf
<1>6. OnePublisherPerOrder'
  BY DEF IInv, TypeOK, OnePublisherPerOrder
<1>7. AnswersAreCommitted'
  BY DEF IInv, TypeOK, AnswersAreCommitted, CorrOf
<1> QED BY <1>1, <1>2, <1>3, <1>4, <1>5, <1>6, <1>7 DEF IInv

(* A look-up that hits answers with an order of the caller's own checkout. *)
LEMMA HitAnswers ==
  ASSUME IInv, NEW w \in Worker, req[w] \in Request, Hit(w)
  PROVE  /\ processed[req[w].key] \in OrderId
         /\ \E o \in orders : o.id = processed[req[w].key] /\ Corr[o.msg] = CorrOf(w)
  BY NoneIsNull, RequestType DEF IInv, TypeOK, KeysAndOrdersAgree, Hit, CorrOf

(* InsertOrder: the index wait and the duplicate check make the row alone.    *)
LEMMA InsertStep == ASSUME IInv, NEW w \in Worker, InsertOrder(w) PROVE IInv'
<1> PICK i \in OrderId : Fresh(i) /\ ord' = [ord EXCEPT ![w] = i]
  BY DEF InsertOrder
<1> USE DEF InsertOrder, Goto
<1>0. req[w] \in Request /\ pc[w] = "insert"
  BY DEF IInv, CallsHaveArguments
<1>1. TypeOK'
  BY DEF IInv, TypeOK
<1>2. CallsHaveArguments'
  BY <1>0 DEF IInv, TypeOK, CallsHaveArguments
<1>3. PendingIdsAreFresh'
  BY <1>0 DEF IInv, TypeOK, PendingIdsAreFresh, Fresh
<1>4. OneOrderPerCorrelation' /\ KeysAndOrdersAgree'
  BY DEF IInv, OneOrderPerCorrelation, KeysAndOrdersAgree
<1>5. SaveNeverOverwrites'
  <2>1. processed[req[w].key] = None
    BY <1>0 DEF IInv, KeysAndOrdersAgree, CorrTaken, CorrOf
  <2> QED
    BY <1>0, <2>1 DEF IInv, TypeOK, SaveNeverOverwrites, CorrHeld, CorrTaken, CorrOf
<1>6. OnePublisherPerOrder'
  BY <1>0 DEF IInv, TypeOK, OnePublisherPerOrder
<1>7. AnswersAreCommitted'
  BY <1>0 DEF IInv, TypeOK, AnswersAreCommitted, CorrOf
<1> QED BY <1>1, <1>2, <1>3, <1>4, <1>5, <1>6, <1>7 DEF IInv

(* SaveKey only moves the transaction on. *)
LEMMA SaveStep == ASSUME IInv, NEW w \in Worker, SaveKey(w) PROVE IInv'
<1> USE DEF SaveKey, Goto
<1>1. TypeOK' /\ CallsHaveArguments'
  BY DEF IInv, TypeOK, CallsHaveArguments
<1>3. PendingIdsAreFresh'
  BY DEF IInv, TypeOK, PendingIdsAreFresh
<1>4. OneOrderPerCorrelation' /\ KeysAndOrdersAgree'
  BY DEF IInv, OneOrderPerCorrelation, KeysAndOrdersAgree
<1>5. SaveNeverOverwrites'
  BY DEF IInv, TypeOK, SaveNeverOverwrites, CorrHeld, CorrTaken, CorrOf
<1>6. OnePublisherPerOrder' /\ AnswersAreCommitted'
  BY DEF IInv, TypeOK, OnePublisherPerOrder, AnswersAreCommitted, CorrOf
<1> QED BY <1>1, <1>3, <1>4, <1>5, <1>6 DEF IInv

(* Commit: the new rows meet no others, in the tables or in other transactions. *)
LEMMA CommitStep == ASSUME IInv, NEW w \in Worker, Commit(w) PROVE IInv'
<1> DEFINE row == [id |-> ord[w], msg |-> req[w].msg]
<1> PICK l \in {"emit", "fail"} : pc' = [pc EXCEPT ![w] = l]
  BY DEF Commit, Goto
<1>0. /\ pc[w] = "commit" /\ req[w] \in Request /\ ord[w] \in OrderId
      /\ req[w].msg \in Msg /\ req[w].key \in Key /\ row \in Row
  BY RequestType DEF IInv, CallsHaveArguments, PendingIdsAreFresh, Commit
<1>a. /\ orders' = orders \cup {row}
      /\ processed' = [processed EXCEPT ![req[w].key] = ord[w]]
      /\ UNCHANGED <<events, ready, req, ord>>
  BY DEF Commit
<1>b. /\ \A o \in orders : o.id # ord[w] /\ Corr[o.msg] # CorrOf(w)
      /\ processed[req[w].key] = None
  BY <1>0 DEF IInv, PendingIdsAreFresh, SaveNeverOverwrites, CorrTaken
<1>c. \A v \in Worker \ {w} : pc[v] \in InsertedAt =>
         ord[v] # ord[w] /\ CorrOf(v) # CorrOf(w)
  BY <1>0 DEF IInv, PendingIdsAreFresh, SaveNeverOverwrites, CorrHeld
<1>1. TypeOK'
  BY <1>0, <1>a DEF IInv, TypeOK
<1>2. CallsHaveArguments'
  BY <1>0, <1>a DEF IInv, TypeOK, CallsHaveArguments
<1>3. PendingIdsAreFresh'
  BY <1>0, <1>a, <1>c DEF IInv, TypeOK, PendingIdsAreFresh
<1>4. OneOrderPerCorrelation'
  BY <1>a, <1>b DEF IInv, OneOrderPerCorrelation, CorrOf
<1>5. KeysAndOrdersAgree'
  <2>1. ASSUME NEW r \in Request, processed'[r.key] # None
        PROVE  \E o \in orders' : o.id = processed'[r.key] /\ Corr[o.msg] = Corr[r.msg]
    <3>0. r.key \in Key
      BY RequestType
    <3>1. CASE r.key = req[w].key
      <4>1. Corr[r.msg] = Corr[req[w].msg]
        BY <1>0, <3>1, KeyMeansOneCorrelation
      <4>2. processed'[r.key] = row.id /\ Corr[row.msg] = Corr[r.msg]
        BY <1>0, <1>a, <3>1, <4>1 DEF IInv, TypeOK
      <4>3. row \in orders'
        BY <1>a
      <4> QED BY <4>2, <4>3
    <3>2. CASE r.key # req[w].key
      BY <1>a, <2>1, <3>0, <3>2 DEF IInv, TypeOK, KeysAndOrdersAgree
    <3> QED BY <3>1, <3>2
  <2>2. \A o \in orders' : \E k \in Key : processed'[k] = o.id
    <3>1. processed'[req[w].key] = row.id
      BY <1>0, <1>a DEF IInv, TypeOK
    <3>2. ASSUME NEW o \in orders PROVE \E k \in Key : processed'[k] = o.id
      <4>1. PICK k \in Key : processed[k] = o.id
        BY DEF IInv, KeysAndOrdersAgree
      <4>2. o.id \in OrderId
        BY DEF IInv, TypeOK
      <4>3. k # req[w].key
        BY <1>b, <4>1, <4>2, NoneIsNull
      <4> QED BY <1>a, <4>1, <4>3 DEF IInv, TypeOK
    <3> QED BY <1>0, <1>a, <3>1, <3>2
  <2> QED BY <2>1, <2>2 DEF KeysAndOrdersAgree
<1>6. SaveNeverOverwrites'
  <2>1. ASSUME NEW v \in Worker, pc'[v] \in InsertedAt
        PROVE  v # w /\ pc[v] \in InsertedAt /\ req[v] \in Request
    BY <2>1, <1>0 DEF IInv, TypeOK, CallsHaveArguments
  <2>2. ASSUME NEW v \in Worker, pc'[v] \in InsertedAt
        PROVE  req[v].key # req[w].key
    BY <2>1, <2>2, <1>0, <1>c, KeyMeansOneCorrelation DEF CorrOf
  <2>3. ASSUME NEW v \in Worker, pc'[v] \in InsertedAt
        PROVE  processed'[req'[v].key] = None
    BY <2>1, <2>2, <2>3, <1>a, RequestType DEF IInv, TypeOK, SaveNeverOverwrites
  <2>4. ASSUME NEW v \in Worker, pc'[v] \in InsertedAt
        PROVE  ~CorrHeld(v)' /\ ~CorrTaken(v)'
    BY <2>1, <2>4, <1>a, <1>c DEF IInv, TypeOK, SaveNeverOverwrites, CorrHeld, CorrTaken, CorrOf
  <2> QED BY <2>3, <2>4 DEF SaveNeverOverwrites
<1>7. OnePublisherPerOrder'
  <2>1. events[ord[w]] = 0
    BY <1>0, <1>b DEF IInv, TypeOK, OnePublisherPerOrder
  <2>2. \A v \in Worker \ {w} : pc[v] = "emit" => ord[v] # ord[w]
    BY <1>b DEF IInv, AnswersAreCommitted
  <2> QED BY <1>0, <1>a, <2>1, <2>2 DEF IInv, TypeOK, OnePublisherPerOrder
<1>8. AnswersAreCommitted'
  <2>1. ASSUME NEW v \in Worker, pc'[v] \in {"emit", "reply"}
        PROVE  \E o \in orders' : o.id = ord'[v] /\ Corr[o.msg] = CorrOf(v)'
    <3>1. CASE v = w
      <4>1. row.id = ord'[v] /\ Corr[row.msg] = CorrOf(v)'
        BY <1>a, <3>1 DEF CorrOf
      <4>2. row \in orders'
        BY <1>a
      <4> QED BY <4>1, <4>2
    <3>2. CASE v # w
      <4>1. pc[v] \in {"emit", "reply"}
        BY <2>1, <3>2 DEF IInv, TypeOK
      <4> QED BY <1>a, <4>1 DEF IInv, AnswersAreCommitted, CorrOf
    <3> QED BY <3>1, <3>2
  <2> QED BY <2>1 DEF AnswersAreCommitted
<1> QED BY <1>1, <1>2, <1>3, <1>4, <1>5, <1>6, <1>7, <1>8 DEF IInv

(* Emit: the sender was the only one, so the count leaves 0 once. *)
LEMMA EmitStep == ASSUME IInv, NEW w \in Worker, Emit(w) PROVE IInv'
<1> PICK n \in 0..MaxCopies : events' = [events EXCEPT ![ord[w]] = @ + n]
  <2>1. CASE ready[Home[w]]
    BY <2>1 DEF Emit
  <2>2. CASE ~ready[Home[w]]
    <3>1. events' = [events EXCEPT ![ord[w]] = @ + 0]
      BY <2>2 DEF Emit
    <3>2. 0 \in 0..MaxCopies
      BY CopiesType
    <3> QED BY <3>1, <3>2
  <2> QED BY <2>1, <2>2
<1> USE DEF Emit, Goto
<1>0. /\ ord[w] \in OrderId /\ events[ord[w]] = 0
      /\ \E o \in orders : o.id = ord[w] /\ Corr[o.msg] = CorrOf(w)
  BY DEF IInv, TypeOK, OnePublisherPerOrder, AnswersAreCommitted
<1>1. TypeOK' /\ CallsHaveArguments'
  BY <1>0 DEF IInv, TypeOK, CallsHaveArguments
<1>3. PendingIdsAreFresh'
  BY DEF IInv, TypeOK, PendingIdsAreFresh
<1>4. OneOrderPerCorrelation' /\ KeysAndOrdersAgree'
  BY DEF IInv, OneOrderPerCorrelation, KeysAndOrdersAgree
<1>5. SaveNeverOverwrites'
  BY DEF IInv, TypeOK, SaveNeverOverwrites, CorrHeld, CorrTaken, CorrOf
<1>6. OnePublisherPerOrder'
  BY <1>0 DEF IInv, TypeOK, OnePublisherPerOrder
<1>7. AnswersAreCommitted'
  BY <1>0 DEF IInv, TypeOK, AnswersAreCommitted, CorrOf
<1> QED BY <1>1, <1>3, <1>4, <1>5, <1>6, <1>7 DEF IInv

(* Restart: rolling back the transactions of a pod disturbs no other. *)
LEMMA RestartStep == ASSUME IInv, NEW r \in Replica, Restart(r) PROVE IInv'
<1> USE DEF Restart
<1>1. TypeOK' /\ CallsHaveArguments'
  BY DEF IInv, TypeOK, CallsHaveArguments
<1>3. PendingIdsAreFresh'
  BY DEF IInv, TypeOK, PendingIdsAreFresh
<1>4. OneOrderPerCorrelation' /\ KeysAndOrdersAgree'
  BY DEF IInv, OneOrderPerCorrelation, KeysAndOrdersAgree
<1>5. SaveNeverOverwrites'
  BY DEF IInv, TypeOK, SaveNeverOverwrites, CorrHeld, CorrTaken, CorrOf
<1>6. OnePublisherPerOrder' /\ AnswersAreCommitted'
  BY DEF IInv, TypeOK, OnePublisherPerOrder, AnswersAreCommitted, CorrOf
<1> QED BY <1>1, <1>3, <1>4, <1>5, <1>6 DEF IInv

(* Every step of every call, and every restart, keeps the invariant. *)
LEMMA NextIInv == IInv /\ [Next]_vars => IInv'
<1> SUFFICES ASSUME IInv, [Next]_vars PROVE IInv'
  OBVIOUS
<1>1. ASSUME NEW w \in Worker, NEW r \in Request, Start(w, r) PROVE IInv'
  BY <1>1, LocalStep DEF Start, Goto, IInv, TypeOK
<1>2. ASSUME NEW w \in Worker, LookupHit(w) \/ RecheckHit(w) PROVE IInv'
  <2>1. req[w] \in Request /\ Hit(w) /\ AnswerExisting(w)
    BY <1>2 DEF LookupHit, RecheckHit, IInv, CallsHaveArguments
  <2>2. req' = [req EXCEPT ![w] = req[w]]
    BY <2>1 DEF AnswerExisting, IInv, TypeOK
  <2>3. /\ processed[req[w].key] \in OrderId
        /\ \E o \in orders : o.id = processed[req[w].key] /\ Corr[o.msg] = Corr[req[w].msg]
    BY <2>1, HitAnswers DEF CorrOf
  <2> QED BY <2>1, <2>2, <2>3, LocalStep DEF AnswerExisting, Goto
<1>3. ASSUME NEW w \in Worker, LookupMiss(w) \/ RecheckMiss(w) PROVE IInv'
  BY <1>3, LocalStep DEF LookupMiss, RecheckMiss, Goto, IInv, TypeOK, CallsHaveArguments
<1>4. ASSUME NEW w \in Worker, DuplicateCorrelation(w) \/ Abort(w) PROVE IInv'
  <2>1. req[w] \in Request /\ Throw(w)
    BY <1>4 DEF DuplicateCorrelation, Abort, IInv, CallsHaveArguments
  <2> QED BY <2>1, LocalStep DEF Throw, Goto, IInv, TypeOK
<1>5. ASSUME NEW w \in Worker, Return(w) PROVE IInv'
  BY <1>5, LocalStep DEF Return, Goto, IInv, TypeOK
<1>6. CASE UNCHANGED vars
  BY <1>6 DEF vars, IInv, TypeOK, CallsHaveArguments, PendingIdsAreFresh,
     OneOrderPerCorrelation, KeysAndOrdersAgree, SaveNeverOverwrites, CorrHeld,
     CorrTaken, CorrOf, OnePublisherPerOrder, AnswersAreCommitted
<1> QED BY <1>1, <1>2, <1>3, <1>4, <1>5, <1>6, InsertStep, SaveStep, CommitStep,
          EmitStep, RestartStep DEF Next, Work

(* Type correctness of order-svc for every instance. *)
THEOREM TypeCorrect == Spec => []TypeOK
<1>1. IInv => TypeOK BY DEF IInv
<1> QED BY <1>1, InitIInv, NextIInv, PTL DEF Spec

(* At most one order per correlation id, for any number of racing deliveries. *)
THEOREM UniqueOrders == Spec => []OneOrderPerCorrelation
<1>1. IInv => OneOrderPerCorrelation BY DEF IInv
<1> QED BY <1>1, InitIInv, NextIInv, PTL DEF Spec

(* The idempotency table and the orders table never disagree. *)
THEOREM KeysAgree == Spec => []KeysAndOrdersAgree
<1>1. IInv => KeysAndOrdersAgree BY DEF IInv
<1> QED BY <1>1, InitIInv, NextIInv, PTL DEF Spec

(* The upsert of processed_events is always an insert. *)
THEOREM NoKeyIsTakenOver == Spec => []SaveNeverOverwrites
<1>1. IInv => SaveNeverOverwrites BY DEF IInv
<1> QED BY <1>1, InitIInv, NextIInv, PTL DEF Spec

(* An order is published by one call at most, and only once it is committed. *)
THEOREM SinglePublisher == Spec => []OnePublisherPerOrder
<1>1. IInv => OnePublisherPerOrder BY DEF IInv
<1> QED BY <1>1, InitIInv, NextIInv, PTL DEF Spec

(* No caller is answered with a row that is not committed or not its own. *)
THEOREM AnswersCommitted == Spec => []AnswersAreCommitted
<1>1. IInv => AnswersAreCommitted BY DEF IInv
<1> QED BY <1>1, InitIInv, NextIInv, PTL DEF Spec

-------------------------------------------------------------------------------
(* Only Commit writes the tables, and it finds its key unbound. *)
LEMMA FinalStep ==
  ASSUME IInv, [Next]_vars
  PROVE  /\ orders \subseteq orders'
         /\ \A k \in Key : processed[k] # None => processed'[k] = processed[k]
<1> DEFINE Final == /\ orders \subseteq orders'
                    /\ \A k \in Key : processed[k] # None => processed'[k] = processed[k]
<1>1. ASSUME NEW w \in Worker, Commit(w) PROVE Final
  BY <1>1 DEF Commit, IInv, TypeOK, SaveNeverOverwrites
<1>2. CASE UNCHANGED dbVars
  BY <1>2
<1>3. CASE UNCHANGED vars
  BY <1>3 DEF vars
<1>4. ASSUME NEW w \in Worker, Work(w) \/ Abort(w) \/ Return(w), ~Commit(w)
      PROVE  UNCHANGED dbVars
  BY <1>4 DEF Work, LookupHit, LookupMiss, RecheckHit, RecheckMiss, InsertOrder,
     DuplicateCorrelation, SaveKey, Emit, Abort, Return, Throw, AnswerExisting
<1> QED BY <1>1, <1>2, <1>3, <1>4 DEF Next, Start, Restart

(* No call, failure or restart removes an order or rebinds a key. *)
THEOREM RowsFinal == Spec => RowsAreFinal
<1>1. IInv /\ [Next]_vars => /\ orders \subseteq orders'
                            /\ \A k \in Key : processed[k] # None => processed'[k] = processed[k]
  BY FinalStep
<1> QED BY <1>1, InitIInv, NextIInv, PTL DEF Spec, RowsAreFinal

-------------------------------------------------------------------------------
(* The refinement mapping names the one order of a correlation id. *)
LEMMA OneOrderOf ==
  ASSUME OneOrderPerCorrelation, NEW o \in orders
  PROVE  OrderOf(Corr[o.msg]) = {o}
  BY DEF OneOrderPerCorrelation, OrderOf

(* The book holds the message of a committed order, with the copies of its event. *)
LEMMA MappedRow ==
  ASSUME OneOrderPerCorrelation, NEW o \in orders, Corr[o.msg] \in CorrId
  PROVE  BookOf[Corr[o.msg]] = o.msg /\ CopiesOf[Corr[o.msg]] = events[o.id]
<1>1. OrderOf(Corr[o.msg]) = {o} /\ (CHOOSE p \in {o} : TRUE) = o
  BY OneOrderOf
<1> QED BY <1>1 DEF BookOf, CopiesOf

(* The book holds nothing for a correlation id without an order. *)
LEMMA UnmappedRow ==
  ASSUME NEW c \in CorrId, \A o \in orders : Corr[o.msg] # c
  PROVE  BookOf[c] = None /\ CopiesOf[c] = 0
<1>1. OrderOf(c) = {}
  BY DEF OrderOf
<1> QED BY <1>1 DEF BookOf, CopiesOf

(* A committed order is an accepted checkout. *)
LEMMA CommitRefines ==
  ASSUME IInv, IInv', NEW w \in Worker, Commit(w)
  PROVE  Book!Accept(req[w].msg) /\ req[w].msg \in Msg
<1> DEFINE row == [id |-> ord[w], msg |-> req[w].msg]
<1>1. /\ pc[w] = "commit" /\ req[w] \in Request /\ req[w].msg \in Msg
      /\ orders' = orders \cup {row} /\ events' = events
  BY RequestType DEF Commit, IInv, CallsHaveArguments
<1>a. PICK c \in CorrId : c = CorrOf(w)
  BY <1>1, CorrType DEF CorrOf
<1>2. \A o \in orders : Corr[o.msg] # c /\ o.id # ord[w]
  BY <1>1, <1>a DEF IInv, SaveNeverOverwrites, CorrTaken, PendingIdsAreFresh
<1>3. BookOf[c] = None /\ CopiesOf[c] = 0
  BY <1>1, <1>2, UnmappedRow
<1>4. OrderOf(c)' = {row}
  BY <1>1, <1>2, <1>a DEF OrderOf, CorrOf
<1>5. BookOf'[c] = req[w].msg /\ CopiesOf'[c] = 0
  <2>1. events[ord[w]] = 0
    BY <1>1, <1>2 DEF IInv, TypeOK, OnePublisherPerOrder, PendingIdsAreFresh
  <2>2. (CHOOSE p \in {row} : TRUE) = row
    OBVIOUS
  <2> QED BY <1>1, <1>4, <2>1, <2>2 DEF BookOf, CopiesOf
<1>6. ASSUME NEW d \in CorrId, d # c PROVE BookOf'[d] = BookOf[d] /\ CopiesOf'[d] = CopiesOf[d]
  <2>1. OrderOf(d)' = OrderOf(d)
    BY <1>1, <1>6, <1>a DEF OrderOf, CorrOf
  <2> QED BY <1>1, <2>1 DEF BookOf, CopiesOf
<1>7. BookOf' = [BookOf EXCEPT ![c] = req[w].msg] /\ CopiesOf' = CopiesOf
  BY <1>1, <1>3, <1>5, <1>6 DEF BookOf, CopiesOf
<1> QED BY <1>1, <1>3, <1>7, <1>a DEF Book!Accept, CorrOf

(* A send that reached the topic is the one publication of its order. *)
LEMMA EmitRefines ==
  ASSUME IInv, NEW w \in Worker, Emit(w)
  PROVE  [Book!Next]_Book!vars
<1> PICK n \in 0..MaxCopies : events' = [events EXCEPT ![ord[w]] = @ + n]
  <2>1. CASE ready[Home[w]]
    BY <2>1 DEF Emit
  <2>2. CASE ~ready[Home[w]]
    <3>1. events' = [events EXCEPT ![ord[w]] = @ + 0]
      BY <2>2 DEF Emit
    <3>2. 0 \in 0..MaxCopies
      BY CopiesType
    <3> QED BY <3>1, <3>2
  <2> QED BY <2>1, <2>2
<1>1. pc[w] = "emit" /\ orders' = orders
  BY DEF Emit
<1>2. PICK o \in orders : o.id = ord[w] /\ Corr[o.msg] = CorrOf(w)
  BY <1>1 DEF IInv, AnswersAreCommitted
<1> DEFINE c == Corr[o.msg]
<1>3. /\ c \in CorrId /\ o.msg \in Msg /\ o.id \in OrderId /\ events[o.id] = 0
      /\ events'[o.id] = n
  BY <1>1, <1>2, CorrType DEF IInv, TypeOK, OnePublisherPerOrder
<1>4. BookOf' = BookOf
  BY <1>1 DEF BookOf, OrderOf
<1>5. BookOf[c] = o.msg /\ CopiesOf[c] = 0
  BY <1>3, MappedRow DEF IInv
<1>6. CopiesOf'[c] = n
  <2>1. OrderOf(c)' = {o} /\ (CHOOSE p \in {o} : TRUE) = o
    BY <1>1, OneOrderOf DEF IInv, OrderOf
  <2> QED BY <1>3, <2>1 DEF CopiesOf
<1>7. ASSUME NEW d \in CorrId, d # c PROVE CopiesOf'[d] = CopiesOf[d]
  <2>1. OrderOf(d)' = OrderOf(d)
    BY <1>1 DEF OrderOf
  <2>2. CASE OrderOf(d) = {}
    BY <2>1, <2>2, <1>7 DEF CopiesOf
  <2>3. CASE OrderOf(d) # {}
    <3>1. PICK p \in orders : Corr[p.msg] = d
      BY <2>3 DEF OrderOf
    <3>2. OrderOf(d) = {p} /\ (CHOOSE q \in {p} : TRUE) = p
      BY <3>1, OneOrderOf DEF IInv
    <3>3. p.id # o.id
      BY <3>1, <1>7 DEF IInv, OneOrderPerCorrelation
    <3>4. events'[p.id] = events[p.id]
      BY <1>2, <3>3 DEF IInv, TypeOK
    <3> QED BY <2>1, <3>2, <3>4, <1>7 DEF CopiesOf
  <2> QED BY <2>2, <2>3
<1>8. CopiesOf' = [CopiesOf EXCEPT ![c] = n]
  BY <1>3, <1>6, <1>7 DEF CopiesOf
<1>9. CASE n = 0
  BY <1>4, <1>5, <1>8, <1>9 DEF Book!vars, CopiesOf
<1>10. CASE n # 0
  <2>1. n \in 1..MaxCopies
    BY <1>10, CopiesType
  <2>2. Book!Publish(c, n)
    BY <1>3, <1>4, <1>5, <1>8, NoneIsNull DEF Book!Publish
  <2> QED BY <1>3, <2>1, <2>2 DEF Book!Next
<1> QED BY <1>9, <1>10

(* order-svc implements the abstract order book: initial states map to the    *)
(* empty book, a commit to Accept, a stored send to Publish, and every other  *)
(* step leaves the book alone.                                                *)
THEOREM Refinement == Spec => ImplementsOrderBook
<1>1. ASSUME Init PROVE Book!Init
  <2>1. \A c \in CorrId : BookOf[c] = None /\ CopiesOf[c] = 0
    BY <1>1, UnmappedRow DEF Init
  <2> QED BY <2>1 DEF Book!Init, BookOf, CopiesOf
<1>2. ASSUME IInv, IInv', [Next]_vars PROVE [Book!Next]_Book!vars
  <2>1. CASE UNCHANGED <<orders, events>>
    BY <2>1 DEF Book!vars, BookOf, CopiesOf, OrderOf
  <2>2. ASSUME NEW w \in Worker, Commit(w) PROVE Book!Next
    BY <1>2, <2>2, CommitRefines DEF Book!Next
  <2>3. ASSUME NEW w \in Worker, Emit(w) PROVE [Book!Next]_Book!vars
    BY <1>2, <2>3, EmitRefines
  <2>4. ASSUME NEW w \in Worker, Work(w) \/ Abort(w) \/ Return(w), ~Commit(w), ~Emit(w)
        PROVE  UNCHANGED <<orders, events>>
    BY <2>4 DEF Work, LookupHit, LookupMiss, RecheckHit, RecheckMiss, InsertOrder,
       DuplicateCorrelation, SaveKey, Abort, Return, Throw, AnswerExisting
  <2> QED BY <1>2, <2>1, <2>2, <2>3, <2>4 DEF Next, Start, Restart, vars
<1> QED BY <1>1, <1>2, InitIInv, NextIInv, PTL DEF Spec, Book!Spec, ImplementsOrderBook

-------------------------------------------------------------------------------
(* Transactions wait for each other on two unique indexes.  A call whose INSERT    *)
(* another transaction holds up, the one of an order or the one of a key:          *)
Waits(w) == \/ pc[w] = "insert" /\ CorrHeld(w)
            \/ pc[w] = "save" /\ KeyHeld(w)

(* A transaction that others can wait for waits for nobody, so a wait is never      *)
(* part of a circle and never behind another (order.service.ts:60-93).              *)
HoldersNeverWait == \A w \in Worker : pc[w] \in InsertedAt => ~Waits(w)

(* Two transactions past the INSERT of their orders have different correlation     *)
(* ids (SaveNeverOverwrites), so they have different keys as well: the second      *)
(* index, which alone could close a circle, makes nobody wait.                     *)
THEOREM NoCircularWait == Spec => []HoldersNeverWait
<1>1. IInv => HoldersNeverWait
  <2> SUFFICES ASSUME IInv, NEW w \in Worker, pc[w] \in InsertedAt, Waits(w) PROVE FALSE
    BY DEF HoldersNeverWait
  <2>1. PICK v \in Worker \ {w} : pc[v] = "commit" /\ req[v].key = req[w].key
    BY DEF Waits, KeyHeld, InsertedAt
  <2>2. req[v] \in Request /\ req[w] \in Request
    BY <2>1 DEF IInv, CallsHaveArguments, InsertedAt
  <2>3. CorrOf(v) = CorrOf(w)
    BY <2>1, <2>2, KeyMeansOneCorrelation DEF CorrOf
  <2>4. CorrHeld(w)
    BY <2>1, <2>3 DEF CorrHeld, InsertedAt
  <2> QED BY <2>4 DEF IInv, SaveNeverOverwrites
<1> QED BY <1>1, InitIInv, NextIInv, PTL DEF Spec
===============================================================================
