------------------------------ MODULE TaskSvcProofs ------------------------------
(***************************************************************************)
(* Proofs about the two halves of task-svc, for any pods, partitions,      *)
(* orders, tasks, requests in progress and number of failures or writes.   *)
(*                                                                         *)
(* OrderCreatedConsumer: OffsetsFollowTasks says that some pod holds a     *)
(* record that the group has read but not delivered; it is inductive once  *)
(* that pod is known to be the owner of the partition and the record the   *)
(* last one read: a pod that has lost its partition holds it in vain.      *)
(*                                                                         *)
(* TaskService: NoLostUpdate needs what the xmin of Postgres gives: every  *)
(* write has a version of its own, so that a version that was replaced     *)
(* never comes back in any row.                                            *)
(***************************************************************************)
EXTENDS OrderCreatedConsumer, TaskService, TLAPS

Holds(c, p) == cur[c] # None /\ cur[c].part = p

(* Positions lie within the log, and an owner at work holds the last record read. *)
OwnersArePlaced ==
  /\ \A p \in Partition : pos[p] <= Len(log[p]) /\ base[p] <= Len(log[p])
  /\ \A p \in Partition : stored[p] # NoOffset => stored[p] <= Len(log[p])
  /\ \A c \in Pod : cur[c] # None =>
       /\ cur[c].off < Len(log[cur[c].part])
       /\ cur[c].next = "insert" => Record(c) # Junk
       /\ cur[c].next = "commit" => Delivered(cur[c].part, cur[c].off + 1)
       /\ owner[cur[c].part] = c => pos[cur[c].part] = cur[c].off + 1

(* A task that is there was inserted for its order. *)
TasksWereCreated == \A o \in Order : tasks[o] # "none" => created[o] > 0

(* What the owner has read is delivered, but for the record in its hands. *)
ReadIsDelivered ==
  \A p \in Partition : \A n \in Nat :
    base[p] < n /\ n <= pos[p] /\ owner[p] # None =>
      Delivered(p, n) \/ (Holds(owner[p], p) /\ cur[owner[p]].off = n - 1)

(* What lies below the stored offset is. *)
StoredIsDelivered ==
  \A p \in Partition : \A n \in Nat :
    base[p] < n /\ stored[p] # NoOffset /\ n <= stored[p] => Delivered(p, n)

CInv == CTypeOK /\ OwnersArePlaced /\ TasksWereCreated /\ ReadIsDelivered /\ StoredIsDelivered

(* An empty topic satisfies the invariant. *)
LEMMA InitCInv == CInit => CInv
<1> SUFFICES ASSUME CInit PROVE CInv
  OBVIOUS
<1>1. CTypeOK
  BY LogBoundsType DEF CInit, CTypeOK
<1>2. OwnersArePlaced /\ TasksWereCreated /\ ReadIsDelivered /\ StoredIsDelivered
  BY DEF CInit, OwnersArePlaced, TasksWereCreated, ReadIsDelivered, StoredIsDelivered
<1> QED BY <1>1, <1>2 DEF CInv

(* Edits and deletions touch neither the topic nor what was created. *)
LEMMA TaskStep == ASSUME CInv, NEW o \in Order, Edit(o) \/ Delete(o) PROVE CInv'
<1> USE DEF Edit, Delete, logVars
<1>1. CTypeOK'
  BY DEF CInv, CTypeOK
<1>2. OwnersArePlaced'
  BY DEF CInv, OwnersArePlaced, Record, Delivered
<1>3. TasksWereCreated'
  BY DEF CInv, CTypeOK, TasksWereCreated
<1>4. ReadIsDelivered' /\ StoredIsDelivered'
  BY DEF CInv, ReadIsDelivered, StoredIsDelivered, Holds, Delivered
<1> QED BY <1>1, <1>2, <1>3, <1>4 DEF CInv

(* A record is appended behind every position. *)
LEMMA AnnounceStep ==
  ASSUME CInv, NEW p \in Partition, NEW e \in Order \cup {Junk}, Announce(p, e)
  PROVE  CInv'
<1>1. /\ log \in [Partition -> Seq(Order \cup {Junk})]
      /\ log' = [log EXCEPT ![p] = Append(log[p], e)]
      /\ UNCHANGED <<stored, pos, base, owner, cur, tasks, created, faults, failed>>
  BY DEF Announce, CInv, CTypeOK, taskVars
<1>2. \A q \in Partition : /\ log'[q] \in Seq(Order \cup {Junk}) /\ Len(log[q]) \in Nat /\ Len(log'[q]) \in Nat
                           /\ Len(log[q]) <= Len(log'[q])
                           /\ \A n \in 1..Len(log[q]) : log'[q][n] = log[q][n]
  <2> SUFFICES ASSUME NEW q \in Partition
               PROVE  /\ log'[q] \in Seq(Order \cup {Junk}) /\ Len(log[q]) \in Nat /\ Len(log'[q]) \in Nat
                      /\ Len(log[q]) <= Len(log'[q])
                      /\ \A n \in 1..Len(log[q]) : log'[q][n] = log[q][n]
    OBVIOUS
  <2>1. CASE q = p
    BY <1>1, <2>1
  <2>2. CASE q # p
    BY <1>1, <2>2
  <2> QED BY <2>1, <2>2
<1>3. CTypeOK'
  BY <1>1, <1>2 DEF CInv, CTypeOK
<1>4. \A q \in Partition : \A n \in 1..Len(log[q]) : Delivered(q, n) => Delivered(q, n)'
  BY <1>1, <1>2 DEF Delivered
<1>5. OwnersArePlaced'
  <2>1. \A q \in Partition : /\ pos'[q] <= Len(log'[q]) /\ base'[q] <= Len(log'[q])
                             /\ stored'[q] # NoOffset => stored'[q] <= Len(log'[q])
    BY <1>1, <1>2 DEF CInv, CTypeOK, OwnersArePlaced
  <2>2. ASSUME NEW c \in Pod, cur'[c] # None
        PROVE  /\ cur'[c].off < Len(log'[cur'[c].part])
               /\ cur'[c].next = "insert" => Record(c)' # Junk
               /\ cur'[c].next = "commit" => Delivered(cur[c].part, cur[c].off + 1)'
               /\ owner'[cur'[c].part] = c => pos'[cur'[c].part] = cur'[c].off + 1
    <3>1. cur'[c] = cur[c] /\ cur[c] \in Working
      BY <1>1, <2>2 DEF CInv, CTypeOK
    <3>2. cur[c].part \in Partition /\ cur[c].off + 1 \in 1..Len(log[cur[c].part])
      BY <1>1, <2>2, <3>1 DEF CInv, OwnersArePlaced, Working
    <3> QED BY <1>1, <1>2, <1>4, <2>2, <3>1, <3>2 DEF CInv, OwnersArePlaced, Record, Working
  <2> QED BY <1>1, <2>1, <2>2 DEF OwnersArePlaced
<1>6. TasksWereCreated'
  BY <1>1 DEF CInv, TasksWereCreated
<1>7. ReadIsDelivered' /\ StoredIsDelivered'
  <2>1. \A q \in Partition, n \in Nat : base[q] < n /\ n <= Len(log[q]) => n \in 1..Len(log[q])
    BY <1>2 DEF CInv, CTypeOK
  <2>2. \A q \in Partition : pos[q] \in Nat /\ pos[q] <= Len(log[q]) /\ base[q] \in Nat
    BY DEF CInv, CTypeOK, OwnersArePlaced
  <2>3. \A q \in Partition : stored[q] # NoOffset => stored[q] \in Nat /\ stored[q] <= Len(log[q])
    BY DEF CInv, CTypeOK, OwnersArePlaced
  <2>4. ReadIsDelivered'
    BY <1>1, <1>2, <1>4, <2>1, <2>2 DEF CInv, ReadIsDelivered, Holds
  <2>5. StoredIsDelivered'
    BY <1>1, <1>2, <1>4, <2>1, <2>3 DEF CInv, StoredIsDelivered
  <2> QED BY <2>4, <2>5
<1> QED BY <1>3, <1>5, <1>6, <1>7 DEF CInv

(* A session begins at the stored offset, or at the end of the log. *)
LEMMA AssignStep == ASSUME CInv, NEW c \in Pod, NEW p \in Partition, Assign(c, p) PROVE CInv'
<1> DEFINE from == IF stored[p] = NoOffset THEN Len(log[p]) ELSE stored[p]
<1>1. /\ cur[c] = None /\ owner' = [owner EXCEPT ![p] = c] /\ pos' = [pos EXCEPT ![p] = from]
      /\ base' = IF stored[p] = NoOffset THEN [base EXCEPT ![p] = from] ELSE base
      /\ UNCHANGED <<log, stored, cur, tasks, created, failed>>
  BY DEF Assign, taskVars
<1>2. from \in Nat /\ from <= Len(log[p]) /\ Len(log[p]) \in Nat /\ pos \in [Partition -> Nat] /\ base \in [Partition -> Nat]
      /\ owner \in [Partition -> Pod \cup {None}]
  BY DEF CInv, CTypeOK, OwnersArePlaced
<1>3. CTypeOK'
  <2>1. faults' \in 0..MaxFaults
    BY LogBoundsType DEF Assign, Fault, CInv, CTypeOK
  <2>2. pos' \in [Partition -> Nat] /\ base' \in [Partition -> Nat] /\ owner' \in [Partition -> Pod \cup {None}]
    <3> HIDE DEF from
    <3> QED BY <1>1, <1>2
  <2> QED BY <1>1, <2>1, <2>2 DEF CInv, CTypeOK
<1> HIDE DEF from
<1>4. OwnersArePlaced'
  <2>1. \A q \in Partition : pos'[q] <= Len(log'[q]) /\ base'[q] <= Len(log'[q])
    BY <1>1, <1>2 DEF CInv, OwnersArePlaced
  <2>2. \A d \in Pod : cur'[d] # None /\ owner'[cur'[d].part] = d => pos'[cur'[d].part] = cur'[d].off + 1
    BY <1>1, <1>2 DEF CInv, CTypeOK, OwnersArePlaced, Working
  <2> QED BY <1>1, <2>1, <2>2 DEF CInv, OwnersArePlaced, Record, Delivered
<1>5. TasksWereCreated'
  BY <1>1 DEF CInv, TasksWereCreated
<1>6. ReadIsDelivered'
  <2> SUFFICES ASSUME NEW q \in Partition, NEW n \in Nat, base'[q] < n, n <= pos'[q], owner'[q] # None
               PROVE  (Delivered(q, n) \/ (Holds(owner[q], q) /\ cur[owner[q]].off = n - 1))'
    BY DEF ReadIsDelivered
  <2>1. CASE q # p
    BY <1>1, <1>2, <2>1 DEF CInv, ReadIsDelivered, Delivered, Holds
  <2>2. CASE q = p /\ stored[p] = NoOffset
    <3>1. base'[q] = pos'[q] /\ pos'[q] \in Nat
      BY <1>1, <1>2, <2>2
    <3> QED BY <3>1
  <2>3. CASE q = p /\ stored[p] # NoOffset
    <3>1. pos'[q] = stored[q] /\ base'[q] = base[q]
      BY <1>1, <1>2, <2>3 DEF from
    <3> QED BY <1>1, <2>3, <3>1 DEF CInv, StoredIsDelivered, Delivered
  <2> QED BY <2>1, <2>2, <2>3
<1>7. StoredIsDelivered'
  BY <1>1, <1>2 DEF CInv, StoredIsDelivered, Delivered
<1> QED BY <1>3, <1>4, <1>5, <1>6, <1>7 DEF CInv

(* The owner takes the next record into its hands; it had none. *)
LEMMA ConsumeStep == ASSUME CInv, NEW c \in Pod, NEW p \in Partition, Consume(c, p) PROVE CInv'
<1> DEFINE rec == [part |-> p, off |-> pos[p],
                   next |-> IF log[p][pos[p] + 1] = Junk THEN "commit" ELSE "insert"]
<1>1. /\ cur[c] = None /\ owner[p] = c /\ pos[p] < Len(log[p])
      /\ cur' = [cur EXCEPT ![c] = rec] /\ pos' = [pos EXCEPT ![p] = pos[p] + 1]
      /\ UNCHANGED <<log, stored, base, owner, tasks, created, faults, failed>>
  BY DEF Consume, taskVars
<1>2. /\ pos[p] \in Nat /\ Len(log[p]) \in Nat /\ pos \in [Partition -> Nat] /\ base \in [Partition -> Nat]
      /\ rec \in Working /\ cur \in [Pod -> Working \cup {None}]
      /\ rec.part = p /\ rec.off = pos[p] /\ rec.next = (IF log[p][pos[p] + 1] = Junk THEN "commit" ELSE "insert")
  BY DEF CInv, CTypeOK, Working
<1>3. CTypeOK'
  BY <1>1, <1>2 DEF CInv, CTypeOK
<1> HIDE DEF rec
<1>4. OwnersArePlaced'
  <2>1. \A q \in Partition : pos'[q] <= Len(log'[q]) /\ base'[q] <= Len(log'[q])
    BY <1>1, <1>2 DEF CInv, OwnersArePlaced
  <2>2. ASSUME NEW d \in Pod, cur'[d] # None
        PROVE  /\ cur'[d].off < Len(log'[cur'[d].part])
               /\ cur'[d].next = "insert" => Record(d)' # Junk
               /\ cur'[d].next = "commit" => Delivered(cur[d].part, cur[d].off + 1)'
               /\ owner'[cur'[d].part] = d => pos'[cur'[d].part] = cur'[d].off + 1
    <3>1. CASE d = c
      <4>1. cur'[d] = rec
        BY <1>1, <1>2, <3>1
      <4> QED BY <1>1, <1>2, <3>1, <4>1 DEF Record, Delivered
    <3>2. CASE d # c
      <4>1. cur'[d] = cur[d] /\ cur[d] \in Working
        BY <1>1, <1>2, <2>2, <3>2
      <4>2. owner[cur[d].part] = d => cur[d].part # p
        BY <1>1, <3>2
      <4> QED BY <1>1, <1>2, <2>2, <4>1, <4>2 DEF CInv, OwnersArePlaced, Record, Delivered, Working
    <3> QED BY <3>1, <3>2
  <2> QED BY <1>1, <2>1, <2>2 DEF CInv, OwnersArePlaced
<1>5. TasksWereCreated'
  BY <1>1 DEF CInv, TasksWereCreated
<1>6. ReadIsDelivered'
  <2> SUFFICES ASSUME NEW q \in Partition, NEW n \in Nat, base'[q] < n, n <= pos'[q], owner'[q] # None
               PROVE  (Delivered(q, n) \/ (Holds(owner[q], q) /\ cur[owner[q]].off = n - 1))'
    BY DEF ReadIsDelivered
  <2>0. owner[q] \in Pod /\ (Delivered(q, n) => Delivered(q, n)')
    BY <1>1 DEF CInv, CTypeOK, Delivered
  <2>1. CASE q # p
    <3>1. pos'[q] = pos[q]
      BY <1>1, <1>2, <2>1
    <3>2. Delivered(q, n) \/ (Holds(owner[q], q) /\ cur[owner[q]].off = n - 1)
      BY <1>1, <3>1 DEF CInv, ReadIsDelivered
    <3>3. CASE owner[q] = c
      BY <1>1, <2>0, <3>2, <3>3 DEF Holds
    <3>4. CASE owner[q] # c
      BY <1>1, <1>2, <2>0, <3>2, <3>4 DEF Holds
    <3> QED BY <3>3, <3>4
  <2>2. CASE q = p /\ n <= pos[p]
    BY <1>1, <2>0, <2>2 DEF CInv, ReadIsDelivered, Holds
  <2>3. CASE q = p /\ n = pos[p] + 1
    <3>1. cur'[owner'[q]] = rec /\ rec # None
      BY <1>1, <1>2, <2>3, NullType
    <3> QED BY <1>2, <2>3, <3>1 DEF Holds
  <2> QED BY <1>1, <1>2, <2>1, <2>2, <2>3
<1>7. StoredIsDelivered'
  BY <1>1 DEF CInv, StoredIsDelivered, Delivered
<1> QED BY <1>3, <1>4, <1>5, <1>6, <1>7 DEF CInv

(* The insert has the record's order created, now or before. *)
LEMMA EnsureStep == ASSUME CInv, NEW c \in Pod, EnsureDeliveryTask(c) PROVE CInv'
<1>1. /\ cur[c] # None /\ cur[c].next = "insert" /\ cur' = [cur EXCEPT ![c].next = "commit"]
      /\ UNCHANGED <<log, stored, pos, base, owner, faults, failed>>
  BY DEF EnsureDeliveryTask, logVars
<1>0. cur \in [Pod -> Working \cup {None}] /\ cur[c] \in Working
  BY <1>1 DEF CInv, CTypeOK
<1> PICK p \in Partition, k \in Nat, o \in Order \cup {Junk} :
      p = cur[c].part /\ k = cur[c].off + 1 /\ k \in 1..Len(log[p]) /\ o = log[p][k]
  <2>1. cur[c].part \in Partition /\ cur[c].off \in Nat
    BY <1>0 DEF Working
  <2>2. cur[c].off + 1 \in 1..Len(log[cur[c].part]) /\ log[cur[c].part][cur[c].off + 1] \in Order \cup {Junk}
    BY <1>1, <2>1 DEF CInv, CTypeOK, OwnersArePlaced
  <2> QED BY <2>1, <2>2
<1>2. cur[c].off \in Nat /\ cur[c].off + 1 = k /\ o = Record(c)
  BY <1>0 DEF Working, Record
<1>3. o \in Order
  BY <1>1, <1>2 DEF CInv, OwnersArePlaced
<1>4. /\ tasks' \in [Order -> {"none", "todo", "edited"}] /\ created' \in [Order -> 0..2]
      /\ created'[o] > 0 /\ \A q \in Order : created[q] > 0 => created'[q] > 0
      /\ \A q \in Order : tasks'[q] # "none" => created'[q] > 0
  <2>1. CASE tasks[o] = "none"
    <3>1. /\ tasks' = [tasks EXCEPT ![o] = "todo"]
          /\ created' = [created EXCEPT ![o] = IF created[o] = 2 THEN 2 ELSE created[o] + 1]
      BY <1>2, <2>1 DEF EnsureDeliveryTask
    <3>2. created[o] \in 0..2
      BY <1>3 DEF CInv, CTypeOK
    <3> QED BY <1>3, <3>1, <3>2 DEF CInv, CTypeOK, TasksWereCreated
  <2>2. CASE tasks[o] # "none"
    <3>1. UNCHANGED <<tasks, created>>
      BY <1>2, <2>2 DEF EnsureDeliveryTask, taskVars
    <3> QED BY <1>3, <2>2, <3>1 DEF CInv, CTypeOK, TasksWereCreated
  <2> QED BY <2>1, <2>2
<1>5. cur'[c] = [cur[c] EXCEPT !.next = "commit"] /\ \A d \in Pod : d # c => cur'[d] = cur[d]
  BY <1>0, <1>1
<1>6. cur'[c].part = p /\ cur'[c].off = cur[c].off /\ cur'[c].next = "commit" /\ cur'[c] \in Working
  BY <1>0, <1>5 DEF Working
<1>7. CTypeOK'
  BY <1>1, <1>4, <1>5, <1>6 DEF CInv, CTypeOK
<1>8. \A q \in Partition : \A n \in 1..Len(log[q]) : Delivered(q, n) => Delivered(q, n)'
  <2>1. \A q \in Partition : \A n \in 1..Len(log[q]) : log[q][n] \in Order \cup {Junk}
    BY DEF CInv, CTypeOK
  <2> QED BY <1>1, <1>4, <2>1 DEF Delivered
<1>9. Delivered(p, k)'
  BY <1>1, <1>4 DEF Delivered
<1>10. OwnersArePlaced'
  <2>1. ASSUME NEW d \in Pod, cur'[d] # None
        PROVE  /\ cur'[d].off < Len(log'[cur'[d].part])
               /\ cur'[d].next = "insert" => Record(d)' # Junk
               /\ cur'[d].next = "commit" => Delivered(cur[d].part, cur[d].off + 1)'
               /\ owner'[cur'[d].part] = d => pos'[cur'[d].part] = cur'[d].off + 1
    <3>1. CASE d = c
      <4>1. Delivered(cur[c].part, cur[c].off + 1)'
        BY <1>2, <1>6, <1>9 DEF Delivered
      <4> QED BY <1>1, <1>6, <3>1, <4>1 DEF CInv, OwnersArePlaced
    <3>2. CASE d # c
      <4>1. cur'[d] = cur[d] /\ cur[d] \in Working /\ cur[d].part \in Partition
        BY <1>0, <1>5, <2>1, <3>2 DEF Working
      <4>2. cur[d].off + 1 \in 1..Len(log[cur[d].part])
        BY <2>1, <4>1 DEF CInv, CTypeOK, OwnersArePlaced, Working
      <4> QED BY <1>1, <1>8, <2>1, <4>1, <4>2 DEF CInv, OwnersArePlaced, Record
    <3> QED BY <3>1, <3>2
  <2> QED BY <1>1, <2>1 DEF CInv, OwnersArePlaced
<1>11. TasksWereCreated'
  BY <1>4 DEF TasksWereCreated
<1>12. \A q \in Partition, n \in Nat :
         base[q] < n /\ stored[q] # NoOffset /\ n <= stored[q] => n \in 1..Len(log[q])
  <2>1. \A q \in Partition : /\ base[q] \in Nat /\ Len(log[q]) \in Nat
                             /\ stored[q] # NoOffset => stored[q] \in Nat /\ stored[q] <= Len(log[q])
    BY DEF CInv, CTypeOK, OwnersArePlaced
  <2> QED BY <2>1
<1>13. ReadIsDelivered'
  <2> SUFFICES ASSUME NEW q \in Partition, NEW n \in Nat, base[q] < n, n <= pos[q], owner[q] # None
               PROVE  (Delivered(q, n) \/ (Holds(owner[q], q) /\ cur[owner[q]].off = n - 1))'
    BY <1>1 DEF ReadIsDelivered
  <2>1. CASE Delivered(q, n)
    <3>1. base[q] \in Nat /\ pos[q] \in Nat /\ Len(log[q]) \in Nat /\ pos[q] <= Len(log[q])
      BY DEF CInv, CTypeOK, OwnersArePlaced
    <3>2. n \in 1..Len(log[q])
      BY <3>1
    <3> QED BY <1>8, <2>1, <3>2
  <2>2. CASE Holds(owner[q], q) /\ cur[owner[q]].off = n - 1
    <3>1. CASE owner[q] = c
      <4>1. q = p /\ n = k
        BY <1>2, <2>2, <3>1 DEF Holds
      <4> QED BY <1>9, <4>1
    <3>2. CASE owner[q] # c
      BY <1>1, <1>5, <2>2, <3>2 DEF CInv, CTypeOK, Holds
    <3> QED BY <3>1, <3>2
  <2> QED BY <2>1, <2>2 DEF CInv, ReadIsDelivered
<1>14. StoredIsDelivered'
  BY <1>1, <1>8, <1>12 DEF CInv, StoredIsDelivered
<1> QED BY <1>7, <1>10, <1>11, <1>13, <1>14 DEF CInv

(* A pod lays its record down: it is delivered, or on record as failed, or the *)
(* pod does not own the partition.                                             *)
LEMMA LayDown ==
  ASSUME CInv, NEW c \in Pod, NEW r, NEW k,
         cur[c] # None => r = cur[c].part /\ k = cur[c].off + 1,
         cur' = [cur EXCEPT ![c] = None], CTypeOK',
         UNCHANGED <<log, pos, base, tasks, created>>, failed \subseteq failed',
         \A p \in Partition : owner'[p] \in {owner[p], None},
         \/ \A p \in Partition : owner'[p] # c
         \/ cur[c] # None => Delivered(r, k)'
  PROVE  /\ (\A p \in Partition : stored'[p] # NoOffset => stored'[p] <= Len(log[p])) => OwnersArePlaced'
         /\ TasksWereCreated' /\ ReadIsDelivered'
<1>1. /\ cur \in [Pod -> Working \cup {None}] /\ cur' \in [Pod -> Working \cup {None}]
      /\ cur'[c] = None /\ \A d \in Pod : d # c => cur'[d] = cur[d]
  BY DEF CInv, CTypeOK
<1>2. \A q \in Partition, n \in Nat : Delivered(q, n) => Delivered(q, n)'
  BY DEF Delivered
<1>3. ASSUME \A p \in Partition : stored'[p] # NoOffset => stored'[p] <= Len(log[p])
      PROVE  OwnersArePlaced'
  <2>1. ASSUME NEW d \in Pod, cur'[d] # None
        PROVE  /\ cur'[d].off < Len(log'[cur'[d].part])
               /\ cur'[d].next = "insert" => Record(d)' # Junk
               /\ cur'[d].next = "commit" => Delivered(cur[d].part, cur[d].off + 1)'
               /\ owner'[cur'[d].part] = d => pos'[cur'[d].part] = cur'[d].off + 1
    <3>1. d # c /\ cur'[d] = cur[d] /\ cur[d].part \in Partition /\ cur[d].off \in Nat
      BY <1>1, <2>1 DEF Working
    <3>2. owner'[cur[d].part] = d => owner[cur[d].part] = d
      BY <3>1, NullType
    <3>3. Delivered(cur[d].part, cur[d].off + 1) => Delivered(cur[d].part, cur[d].off + 1)'
      BY <3>1 DEF Delivered
    <3> QED BY <2>1, <3>1, <3>2, <3>3 DEF CInv, OwnersArePlaced, Record
  <2> QED BY <1>3, <2>1 DEF CInv, OwnersArePlaced
<1>4. TasksWereCreated'
  BY DEF CInv, TasksWereCreated
<1>5. ReadIsDelivered'
  <2> SUFFICES ASSUME NEW q \in Partition, NEW n \in Nat, base[q] < n, n <= pos[q], owner'[q] # None
               PROVE  (Delivered(q, n) \/ (Holds(owner[q], q) /\ cur[owner[q]].off = n - 1))'
    BY DEF ReadIsDelivered
  <2>1. owner'[q] = owner[q]
    OBVIOUS
  <2>2. CASE Delivered(q, n)
    BY <1>2, <2>2
  <2>3. CASE Holds(owner[q], q) /\ cur[owner[q]].off = n - 1
    <3>1. CASE owner[q] = c
      <4>1. cur[c] # None /\ q = cur[c].part /\ cur[c] \in Working
        BY <1>1, <2>3, <3>1 DEF Holds
      <4>2. q = r /\ n = k
        BY <2>3, <3>1, <4>1 DEF Working
      <4>3. Delivered(r, k)'
        BY <2>1, <3>1, <4>1
      <4> QED BY <4>2, <4>3
    <3>2. CASE owner[q] # c
      BY <1>1, <2>1, <2>3, <3>2 DEF CInv, CTypeOK, Holds
    <3> QED BY <3>1, <3>2
  <2> QED BY <2>1, <2>2, <2>3 DEF CInv, ReadIsDelivered
<1> QED BY <1>3, <1>4, <1>5

(* The offset of a delivered record is stored, if the broker takes it. *)
LEMMA CommitStep == ASSUME CInv, NEW c \in Pod, Commit(c) PROVE CInv'
<1>1. /\ cur[c] # None /\ cur[c].next = "commit" /\ cur' = [cur EXCEPT ![c] = None]
      /\ UNCHANGED <<log, pos, base, owner, tasks, created, faults, failed>>
  BY DEF Commit, Idle, taskVars
<1>2. /\ cur[c] \in Working /\ cur[c].part \in Partition /\ cur[c].off \in Nat
  BY <1>1 DEF CInv, CTypeOK, Working
<1> PICK r \in Partition, k \in Nat : r = cur[c].part /\ k = cur[c].off + 1
  BY <1>2
<1>3. Delivered(r, k) /\ k \in 1..Len(log[r]) /\ (owner[r] = c => pos[r] = k)
  BY <1>1, <1>2 DEF CInv, CTypeOK, OwnersArePlaced
<1>4. \/ stored' = [stored EXCEPT ![r] = k] /\ owner[r] = c
      \/ UNCHANGED stored
  BY <1>2 DEF Commit
<1>5. CTypeOK'
  BY <1>1, <1>4 DEF CInv, CTypeOK
<1>6. Delivered(r, k)'
  BY <1>1, <1>3 DEF Delivered
<1>7. \A p \in Partition : stored'[p] # NoOffset => stored'[p] <= Len(log[p])
  BY <1>3, <1>4 DEF CInv, CTypeOK, OwnersArePlaced
<1>8. OwnersArePlaced' /\ TasksWereCreated' /\ ReadIsDelivered'
  BY <1>1, <1>5, <1>6, <1>7, LayDown
<1>9. StoredIsDelivered'
  <2> SUFFICES ASSUME NEW q \in Partition, NEW n \in Nat, base[q] < n, stored'[q] # NoOffset, n <= stored'[q]
               PROVE  Delivered(q, n)'
    BY <1>1 DEF StoredIsDelivered
  <2>1. Delivered(q, n) => Delivered(q, n)'
    BY <1>1 DEF Delivered
  <2>2. CASE stored'[q] = stored[q]
    BY <2>1, <2>2 DEF CInv, StoredIsDelivered
  <2>3. CASE stored'[q] # stored[q]
    <3>1. q = r /\ owner[q] = c /\ n <= pos[q] /\ stored'[q] = k
      BY <1>3, <1>4, <2>3 DEF CInv, CTypeOK
    <3>2. Delivered(q, n) \/ (cur[owner[q]].off = n - 1)
      BY <3>1, NullType DEF CInv, ReadIsDelivered
    <3>3. Delivered(q, n) \/ n = k
      BY <1>2, <3>1, <3>2
    <3> QED BY <1>6, <2>1, <3>1, <3>3
  <2> QED BY <2>2, <2>3
<1> QED BY <1>5, <1>8, <1>9 DEF CInv

(* A record whose handling throws is on record, unless its task is there. *)
LEMMA FailStep == ASSUME CInv, NEW c \in Pod, HandlingFails(c) PROVE CInv'
<1>1. /\ cur[c] # None /\ cur' = [cur EXCEPT ![c] = None]
      /\ UNCHANGED <<log, stored, pos, base, owner, tasks, created>>
      /\ failed' = IF cur[c].next = "insert" THEN failed \cup {[part |-> cur[c].part, off |-> cur[c].off]} ELSE failed
  BY DEF HandlingFails, Idle, logVars, taskVars
<1>2. /\ cur[c] \in Working /\ cur[c].part \in Partition /\ cur[c].off \in Nat
      /\ cur[c].next \in {"insert", "commit"}
  BY <1>1 DEF CInv, CTypeOK, Working
<1> PICK r \in Partition, k \in Nat : r = cur[c].part /\ k = cur[c].off + 1
  BY <1>2
<1>3. CTypeOK'
  <2>1. faults' \in 0..MaxFaults
    BY LogBoundsType DEF HandlingFails, Fault, CInv, CTypeOK
  <2>2. failed' \subseteq [part : Partition, off : Nat]
    BY <1>1, <1>2 DEF CInv, CTypeOK
  <2> QED BY <1>1, <2>1, <2>2 DEF CInv, CTypeOK
<1>4. Delivered(r, k)'
  <2>1. CASE cur[c].next = "insert"
    <3>1. [part |-> r, off |-> k - 1] \in failed'
      BY <1>1, <1>2, <2>1
    <3> QED BY <3>1 DEF Delivered
  <2>2. CASE cur[c].next = "commit"
    <3>1. Delivered(r, k)
      BY <1>1, <2>2 DEF CInv, OwnersArePlaced
    <3> QED BY <1>1, <3>1 DEF Delivered
  <2> QED BY <1>2, <2>1, <2>2
<1>5. \A p \in Partition : stored'[p] # NoOffset => stored'[p] <= Len(log[p])
  BY <1>1 DEF CInv, OwnersArePlaced
<1>6. OwnersArePlaced' /\ TasksWereCreated' /\ ReadIsDelivered'
  BY <1>1, <1>3, <1>4, <1>5, LayDown
<1>7. StoredIsDelivered'
  BY <1>1 DEF CInv, StoredIsDelivered, Delivered
<1> QED BY <1>3, <1>6, <1>7 DEF CInv

(* A pod that stops leaves its partitions. *)
LEMMA StopStep == ASSUME CInv, NEW c \in Pod, PodStops(c) PROVE CInv'
<1>1. /\ cur' = [cur EXCEPT ![c] = None]
      /\ owner' = [p \in Partition |-> IF owner[p] = c THEN None ELSE owner[p]]
      /\ UNCHANGED <<log, stored, pos, base, tasks, created, failed>>
  BY DEF PodStops, Idle, taskVars
<1>2. CTypeOK'
  <2>1. faults' \in 0..MaxFaults
    BY LogBoundsType DEF PodStops, Fault, CInv, CTypeOK
  <2> QED BY <1>1, <2>1 DEF CInv, CTypeOK
<1>3. \A p \in Partition : owner'[p] # c /\ owner'[p] \in {owner[p], None}
  BY <1>1, NullType
<1>4. \A p \in Partition : stored'[p] # NoOffset => stored'[p] <= Len(log[p])
  BY <1>1 DEF CInv, OwnersArePlaced
<1> PICK r, k : cur[c] # None => r = cur[c].part /\ k = cur[c].off + 1
  OBVIOUS
<1>5. OwnersArePlaced' /\ TasksWereCreated' /\ ReadIsDelivered'
  BY <1>1, <1>2, <1>3, <1>4, LayDown
<1>6. StoredIsDelivered'
  BY <1>1 DEF CInv, StoredIsDelivered, Delivered
<1> QED BY <1>2, <1>5, <1>6 DEF CInv

(* Every step of the broker, the pods and the users keeps the invariant. *)
LEMMA NextCInv == ASSUME CInv, [CNext]_cvars PROVE CInv'
<1>1. CASE UNCHANGED cvars
  BY <1>1 DEF cvars, logVars, taskVars, CInv, CTypeOK, OwnersArePlaced, TasksWereCreated,
              ReadIsDelivered, StoredIsDelivered, Holds, Record, Delivered
<1>2. ASSUME NEW c \in Pod, Handle(c) PROVE CInv'
  BY <1>2, EnsureStep, CommitStep, ConsumeStep DEF Handle
<1>3. CASE CNext
  BY <1>2, <1>3, AnnounceStep, FailStep, StopStep, AssignStep, TaskStep DEF CNext
<1> QED BY <1>1, <1>3

(* The invariant implies what the runs check of offsets and tasks. *)
LEMMA CInvImpliesOffsets == CInv => OffsetsFollowTasks
<1> SUFFICES ASSUME CInv, NEW p \in Partition, NEW n \in base[p] + 1 .. Len(log[p])
             PROVE  /\ stored[p] # NoOffset /\ n <= stored[p] => Delivered(p, n)
                    /\ owner[p] # None /\ n <= pos[p] => Delivered(p, n) \/ Busy(p, n)
  BY DEF OffsetsFollowTasks
<1>1. n \in Nat /\ base[p] < n
  BY DEF CInv, CTypeOK
<1>2. owner[p] # None => owner[p] \in Pod
  BY DEF CInv, CTypeOK
<1> QED BY <1>1, <1>2 DEF CInv, ReadIsDelivered, StoredIsDelivered, Holds, Busy

(* The consumer group never moves past an order that has neither a delivery   *)
(* task nor a failure on record (OrderCreatedKafkaConsumer.cs:59-119), for any *)
(* number of pods, partitions, orders, rebalances and failures.               *)
THEOREM OffsetsFollowTasksHolds == CSpec => []OffsetsFollowTasks
BY InitCInv, NextCInv, CInvImpliesOffsets, PTL DEF CSpec

(* Each record a pod holds, and each offset, is what the next step works on.  *)
THEOREM CTypeCorrect == CSpec => []CTypeOK
<1>1. CInv => CTypeOK
  BY DEF CInv
<1> QED BY InitCInv, NextCInv, <1>1, PTL DEF CSpec

(* Records handled again never overwrite what a user has made of a task: the  *)
(* insert finds the row (TaskService.cs:104-155).                             *)
THEOREM EditsSurviveRedeliveryHolds == CSpec => EditsSurviveRedelivery
<1>1. CInv /\ [CNext]_cvars => [\A o \in Order : tasks[o] = "edited" => tasks'[o] # "todo"]_cvars
  <2> SUFFICES ASSUME CInv, CNext, NEW o \in Order, tasks[o] = "edited" PROVE tasks'[o] # "todo"
    OBVIOUS
  <2>1. ASSUME NEW c \in Pod, EnsureDeliveryTask(c) PROVE tasks'[o] # "todo"
    BY <2>1 DEF EnsureDeliveryTask, taskVars, CInv, CTypeOK
  <2>2. ASSUME NEW q \in Order, Edit(q) \/ Delete(q) PROVE tasks'[o] # "todo"
    BY <2>2 DEF Edit, Delete, CInv, CTypeOK
  <2>3. ASSUME UNCHANGED tasks PROVE tasks'[o] # "todo"
    BY <2>3
  <2> QED BY <2>1, <2>2, <2>3 DEF CNext, Handle, Announce, Assign, Consume, Commit, HandlingFails,
                                 PodStops, taskVars
<1> QED BY InitCInv, NextCInv, <1>1, PTL DEF CSpec, EditsSurviveRedelivery

-------------------------------------------------------------------------------
(* The requests on tasks.  The versions in use have been handed out, and a *)
(* row's version is its own.                                               *)
VersionsAreFresh ==
  /\ \A i \in Id : row[i] <= writes
  /\ \A e \in edits : e.of <= writes
  /\ \A i, j \in Id : row[i] = row[j] /\ row[i] # Absent => i = j

(* A version that an update replaced is in no row any more. *)
ReplacedIsGone == \A e \in edits, i \in Id : row[i] # e.of

IInv == TypeOK /\ VersionsAreFresh /\ ReplacedIsGone /\ NoLostUpdate /\ StaleHasACause

USE DEF Absent, Version, Goto, Answer, Task

(* An empty table and an empty cache satisfy the invariant. *)
LEMMA InitIInv == Init => IInv
<1> SUFFICES ASSUME Init PROVE IInv
  OBVIOUS
<1>1. TypeOK
  BY BoundsType DEF Init, TypeOK, Status
<1>2. VersionsAreFresh /\ ReplacedIsGone /\ NoLostUpdate /\ StaleHasACause
  BY DEF Init, VersionsAreFresh, ReplacedIsGone, NoLostUpdate, StaleHasACause, Stale
<1> QED BY <1>1, <1>2 DEF IInv

(* A step of one request that writes neither the row nor the cache, and does  *)
(* not leave a removal undone, keeps the invariant.                           *)
LEMMA QuietStep ==
  ASSUME IInv, TypeOK', NEW c \in Call, UNCHANGED <<row, cache, writes, edits>>,
         \A d \in Call \ {c} : pc'[d] = pc[d] /\ call'[d] = call[d],
         raced \subseteq raced', pc[c] = "remove" => call[c].id \in raced'
  PROVE  IInv'
<1>1. VersionsAreFresh' /\ ReplacedIsGone' /\ NoLostUpdate'
  BY DEF IInv, VersionsAreFresh, ReplacedIsGone, NoLostUpdate
<1>2. StaleHasACause'
  BY DEF IInv, StaleHasACause, Stale, Removing
<1> QED BY <1>1, <1>2 DEF IInv

(* The read of a row, for a cache entry or for an update. *)
LEMMA FetchStep ==
  ASSUME IInv, NEW c \in Call, NEW l \in {"fill", "save"}, pc[c] \in {"read", "load"}, Fetch(c, l)
  PROVE  IInv'
<1>1. TypeOK'
  <2>1. CASE row[call[c].id] = Absent
    BY <2>1 DEF Fetch, IInv, TypeOK, Status
  <2>2. CASE row[call[c].id] # Absent
    <3>1. call[c].id \in Id /\ row[call[c].id] \in Version
      BY DEF IInv, TypeOK
    <3>2. call' = [call EXCEPT ![c].seen = row[call[c].id]] /\ pc' = [pc EXCEPT ![c] = l]
          /\ UNCHANGED <<row, cache, writes, answer, edits, raced>>
      BY <2>2 DEF Fetch
    <3>3. call' \in [Call -> [id : Id, seen : Version]] /\ call'[c].seen # Absent
      BY <2>2, <3>1, <3>2 DEF IInv, TypeOK
    <3>4. \A d \in Call : d # c => call'[d] = call[d]
      BY <3>2 DEF IInv, TypeOK
    <3> QED BY <3>2, <3>3, <3>4 DEF IInv, TypeOK
  <2> QED BY <2>1, <2>2
<1>2. \A d \in Call \ {c} : pc'[d] = pc[d] /\ call'[d] = call[d]
  BY DEF Fetch, IInv, TypeOK
<1> QED BY <1>1, <1>2, QuietStep DEF Fetch

(* An entry appears or goes: it is the row's, or its cause is on record.      *)
LEMMA CacheStep ==
  ASSUME IInv, TypeOK', NEW i \in Id, NEW v \in Version,
         cache' = [cache EXCEPT ![i] = v], UNCHANGED <<row, writes, edits>>,
         v \in {Absent, row[i]} \/ i \in raced',
         raced \ {i} \subseteq raced',
         \A d \in Call : \/ pc'[d] = pc[d] /\ call'[d] = call[d]
                         \/ pc[d] # "remove"
                         \/ call[d].id = i
  PROVE  IInv'
<1>1. VersionsAreFresh' /\ ReplacedIsGone' /\ NoLostUpdate'
  BY DEF IInv, VersionsAreFresh, ReplacedIsGone, NoLostUpdate
<1>2. StaleHasACause'
  <2> SUFFICES ASSUME NEW j \in Id, Stale(j)' PROVE Removing(j)' \/ j \in raced'
    BY DEF StaleHasACause
  <2>1. CASE j = i
    BY <2>1 DEF Stale, IInv, TypeOK
  <2>2. CASE j # i
    <3>1. Removing(j) \/ j \in raced
      BY <2>2 DEF Stale, IInv, TypeOK, StaleHasACause
    <3> QED BY <2>2, <3>1 DEF Removing
  <2> QED BY <2>1, <2>2
<1> QED BY <1>1, <1>2 DEF IInv

(* An update replaces the version that was read, by one nobody has had. *)
LEMMA SaveStep == ASSUME IInv, NEW c \in Call, Save(c) PROVE IInv'
<1> DEFINE i == call[c].id
           e == [of |-> row[i], to |-> writes']
<1>1. /\ i \in Id /\ row[i] \in Version \ {Absent} /\ writes \in Nat /\ writes' = writes + 1
      /\ writes' \in Version \ {Absent}
      /\ row' = [row EXCEPT ![i] = writes'] /\ edits' = edits \cup {e}
  BY BoundsType DEF Save, Write, NewVersion, IInv, TypeOK
<1>2. TypeOK'
  BY <1>1 DEF Save, IInv, TypeOK, Status
<1>3. \A j \in Id : row[j] \in Nat /\ row[j] <= writes
  BY DEF IInv, TypeOK, VersionsAreFresh
<1>4. \A f \in edits : f.of \in Nat /\ f.of <= writes
  BY DEF IInv, TypeOK, VersionsAreFresh
<1>5. VersionsAreFresh'
  BY <1>1, <1>3, <1>4 DEF IInv, TypeOK, VersionsAreFresh
<1>6. ReplacedIsGone'
  BY <1>1, <1>3, <1>4 DEF IInv, TypeOK, VersionsAreFresh, ReplacedIsGone
<1>7. NoLostUpdate'
  BY <1>1 DEF IInv, ReplacedIsGone, NoLostUpdate
<1>8. StaleHasACause'
  <2> SUFFICES ASSUME NEW j \in Id, Stale(j)' PROVE Removing(j)' \/ j \in raced'
    BY DEF StaleHasACause
  <2>1. CASE j = i
    BY <2>1 DEF Save, IInv, TypeOK, Removing
  <2>2. CASE j # i
    <3>1. Stale(j)
      BY <1>1, <2>2 DEF Save, Stale, IInv, TypeOK
    <3> QED BY <3>1 DEF Save, IInv, TypeOK, StaleHasACause, Removing
  <2> QED BY <2>1, <2>2
<1> QED BY <1>2, <1>5, <1>6, <1>7, <1>8 DEF IInv

(* A new row has a new version, too, even under an id that was deleted. *)
LEMMA InsertStep == ASSUME IInv, NEW i \in Id, Insert(i) PROVE IInv'
<1>1. /\ row[i] = Absent /\ writes \in Nat /\ writes' = writes + 1 /\ writes' \in Version
      /\ row' = [row EXCEPT ![i] = writes']
      /\ UNCHANGED <<cache, pc, call, answer, edits, raced>>
  BY BoundsType DEF Insert, NewVersion, IInv, TypeOK
<1>2. TypeOK'
  BY <1>1 DEF IInv, TypeOK
<1>3. \A j \in Id : row[j] \in Nat /\ row[j] <= writes
  BY DEF IInv, TypeOK, VersionsAreFresh
<1>4. \A f \in edits : f.of \in Nat /\ f.of <= writes
  BY DEF IInv, TypeOK, VersionsAreFresh
<1>5. VersionsAreFresh'
  BY <1>1, <1>3, <1>4 DEF IInv, TypeOK, VersionsAreFresh
<1>6. ReplacedIsGone'
  BY <1>1, <1>4 DEF IInv, TypeOK, ReplacedIsGone
<1>7. NoLostUpdate'
  BY <1>1 DEF IInv, NoLostUpdate
<1>8. StaleHasACause'
  BY <1>1 DEF IInv, TypeOK, StaleHasACause, Stale, Removing
<1> QED BY <1>2, <1>5, <1>6, <1>7, <1>8 DEF IInv

(* A deletion is answered, or goes on to remove the entry. *)
LEMMA DeleteStep == ASSUME IInv, NEW c \in Call, DeleteRow(c) PROVE IInv'
<1> DEFINE i == call[c].id
<1>1. /\ i \in Id /\ row' = [row EXCEPT ![i] = Absent] /\ pc[c] = "delete"
      /\ row[i] = Absent \/ pc'[c] = "remove"
      /\ UNCHANGED <<cache, writes, call, edits, raced>>
  BY DEF DeleteRow, IInv, TypeOK
<1>2. TypeOK'
  BY BoundsType DEF DeleteRow, IInv, TypeOK, Status
<1>3. VersionsAreFresh'
  BY <1>1 DEF IInv, TypeOK, VersionsAreFresh
<1>4. ReplacedIsGone'
  BY <1>1 DEF IInv, TypeOK, ReplacedIsGone
<1>5. NoLostUpdate'
  BY <1>1 DEF IInv, NoLostUpdate
<1>6. StaleHasACause'
  <2> SUFFICES ASSUME NEW j \in Id, Stale(j)' PROVE Removing(j)' \/ j \in raced'
    BY DEF StaleHasACause
  <2>1. CASE j = i /\ row[i] # Absent
    BY <1>1, <2>1 DEF Removing
  <2>2. CASE j # i \/ row[i] = Absent
    <3>1. Stale(j)
      BY <1>1, <2>2 DEF Stale, IInv, TypeOK
    <3>2. \A d \in Call : pc[d] = "remove" => pc'[d] = "remove"
      BY <1>1 DEF DeleteRow, IInv, TypeOK
    <3> QED BY <1>1, <3>1, <3>2 DEF IInv, StaleHasACause, Removing
  <2> QED BY <2>1, <2>2
<1> QED BY <1>2, <1>3, <1>4, <1>5, <1>6 DEF IInv

(* The answer of a look-up, of a conflict, or none to a client that has gone. *)
LEMMA EndStep ==
  ASSUME IInv, NEW c \in Call, LookupHit(c) \/ LookupMiss(c) \/ SaveConflict(c) \/ Cancel(c)
  PROVE  IInv'
<1>1. TypeOK'
  BY DEF LookupHit, LookupMiss, SaveConflict, Cancel, IInv, TypeOK, Status
<1>2. \A d \in Call \ {c} : pc'[d] = pc[d] /\ call'[d] = call[d]
  BY DEF LookupHit, LookupMiss, SaveConflict, Cancel, IInv, TypeOK
<1> QED BY <1>1, <1>2, QuietStep DEF LookupHit, LookupMiss, SaveConflict, Cancel

(* A new request reads nothing yet. *)
LEMMA RequestStep == ASSUME IInv, NEW c \in Call, NEW i \in Id, Request(c, i) PROVE IInv'
<1>1. TypeOK'
  BY BoundsType DEF Request, IInv, TypeOK, Status
<1>2. \A d \in Call \ {c} : pc'[d] = pc[d] /\ call'[d] = call[d]
  BY DEF Request, IInv, TypeOK
<1> QED BY <1>1, <1>2, QuietStep DEF Request

(* The three steps that write the cache. *)
LEMMA EntrySteps ==
  ASSUME IInv, \/ \E c \in Call : Fill(c) \/ Remove(c)
               \/ \E i \in Id : Expire(i)
  PROVE  IInv'
<1>1. ASSUME NEW c \in Call, Fill(c) PROVE IInv'
  <2>1. TypeOK'
    BY <1>1 DEF Fill, IInv, TypeOK, Status
  <2>2. pc[c] = "fill" /\ \A d \in Call \ {c} : pc'[d] = pc[d] /\ call'[d] = call[d]
    BY <1>1 DEF Fill, IInv, TypeOK
  <2>3. CASE UNCHANGED <<cache, raced>>
    BY <1>1, <2>1, <2>2, <2>3, QuietStep DEF Fill
  <2>4. CASE /\ cache' = [cache EXCEPT ![call[c].id] = call[c].seen]
             /\ raced' = IF call[c].seen = row[call[c].id] THEN raced \ {call[c].id}
                                                           ELSE raced \cup {call[c].id}
    <3>1. call[c].id \in Id /\ call[c].seen \in Version
      BY DEF IInv, TypeOK
    <3> QED BY <1>1, <2>1, <2>2, <2>4, <3>1, CacheStep DEF Fill
  <2> QED BY <1>1, <2>3, <2>4 DEF Fill
<1>2. ASSUME NEW c \in Call, Remove(c) PROVE IInv'
  <2>1. TypeOK'
    BY <1>2, BoundsType DEF Remove, IInv, TypeOK, Status
  <2>2. call[c].id \in Id /\ \A d \in Call \ {c} : pc'[d] = pc[d] /\ call'[d] = call[d]
    BY <1>2 DEF Remove, IInv, TypeOK
  <2>3. CASE raced' = raced \cup {call[c].id} /\ UNCHANGED cache
    BY <1>2, <2>1, <2>2, <2>3, QuietStep DEF Remove
  <2>4. CASE cache' = [cache EXCEPT ![call[c].id] = Absent] /\ raced' = raced \ {call[c].id}
    <3>1. Absent \in Version /\ raced \ {call[c].id} \subseteq raced' /\ UNCHANGED <<row, writes, edits>>
      BY <1>2, <2>4, BoundsType DEF Remove
    <3> HIDE DEF Absent, Version
    <3> QED BY <2>1, <2>2, <2>4, <3>1, CacheStep
  <2> QED BY <1>2, <2>3, <2>4 DEF Remove
<1>3. ASSUME NEW i \in Id, Expire(i) PROVE IInv'
  <2>1. TypeOK'
    BY <1>3, BoundsType DEF Expire, IInv, TypeOK
  <2>2. /\ Absent \in Version /\ cache' = [cache EXCEPT ![i] = Absent] /\ raced' = raced \ {i}
        /\ UNCHANGED <<row, writes, edits>> /\ \A d \in Call : pc'[d] = pc[d] /\ call'[d] = call[d]
    BY <1>3, BoundsType DEF Expire
  <2> HIDE DEF Absent, Version
  <2> QED BY <2>1, <2>2, CacheStep
<1> QED BY <1>1, <1>2, <1>3

(* Every step of task-svc keeps the invariant. *)
LEMMA NextIInv == ASSUME IInv, [Next]_vars PROVE IInv'
<1>1. CASE UNCHANGED vars
  BY <1>1 DEF vars, IInv, TypeOK, VersionsAreFresh, ReplacedIsGone, NoLostUpdate, StaleHasACause,
              Stale, Removing
<1>2. ASSUME NEW c \in Call, Read(c) \/ Load(c) PROVE IInv'
  BY <1>2, FetchStep DEF Read, Load
<1>3. CASE Next
  BY <1>2, <1>3, RequestStep, EndStep, EntrySteps, SaveStep, DeleteStep, InsertStep DEF Next
<1> QED BY <1>1, <1>3

(* The invariant holds in every state. *)
THEOREM Invariant == Spec => []IInv
BY InitIInv, NextIInv, PTL DEF Spec

(* What each request holds is what its next step works on. *)
THEOREM TypeCorrect == Spec => []TypeOK
<1>1. IInv => TypeOK
  BY DEF IInv
<1> QED BY Invariant, <1>1, PTL

(* Of the updates that read one version of a task, at most one succeeds       *)
(* (TaskService.cs:157-187 with the xmin of TaskItemConfiguration.cs:43).     *)
THEOREM NoLostUpdateHolds == Spec => []NoLostUpdate
<1>1. IInv => NoLostUpdate
  BY DEF IInv
<1> QED BY Invariant, <1>1, PTL

(* An entry of the cache that differs from its row is about to be removed, or *)
(* one of the three races on record left it (TaskService.cs:58-201).          *)
THEOREM StaleHasACauseHolds == Spec => []StaleHasACause
<1>1. IInv => StaleHasACause
  BY DEF IInv
<1> QED BY Invariant, <1>1, PTL
================================================================================
