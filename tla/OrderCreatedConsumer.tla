-------------------------- MODULE OrderCreatedConsumer --------------------------
(***************************************************************************)
(* task-svc: OrderCreatedKafkaConsumer turns the OrderCreated records of   *)
(* topic order-events into delivery tasks whose primary key is the order   *)
(* id, while users edit and delete tasks.                                  *)
(*                                                                         *)
(* The broker and the Confluent client are external.  Consume advances the *)
(* position of the session; only Commit stores an offset; a partition      *)
(* without a stored offset is read from its end (AutoOffsetReset.Latest);  *)
(* a pod that holds a record too long loses its partition and its commit   *)
(* is refused.                                                             *)
(***************************************************************************)
EXTENDS Naturals, Sequences

CONSTANTS Pod, Partition, Order,
          PartitionOf,   \* the partition the producer picks for an order id
          Junk,          \* a record HandleMessageAsync logs and skips
          None, NoOffset,
          MaxLog,        \* bound: records per partition
          MaxFaults      \* bound: failed records, pod deaths and rebalances

ASSUME PartitionType == PartitionOf \in [Order -> Partition]
Working == [part : Partition, off : Nat, next : {"insert", "commit"}]

ASSUME NullType == None \notin Pod \cup Working /\ NoOffset \notin Nat /\ Junk \notin Order
ASSUME LogBoundsType == MaxLog \in Nat /\ MaxFaults \in Nat

VARIABLES log,      \* records of each partition: an order id or junk
          stored,   \* offset stored for the group
          pos,      \* offset of the next record, in the owner's session
          base,     \* where the sessions since the last reset to the end began
          owner,    \* pod the partition is assigned to
          cur,      \* record a pod is working on: [part, off, next]
          tasks,    \* delivery tasks: "none", "todo" as inserted, or "edited"
          faults,   \* failures so far
          created,  \* history: rows inserted per order, at most 2 counted
          failed    \* history: records whose handling has thrown

logVars == <<log, stored, pos, base, owner>>
taskVars == <<tasks, created>>
cvars == <<logVars, cur, taskVars, faults, failed>>

CInit == /\ log = [p \in Partition |-> <<>>]
         /\ stored = [p \in Partition |-> NoOffset]
         /\ pos = [p \in Partition |-> 0]
         /\ base = [p \in Partition |-> 0]
         /\ owner = [p \in Partition |-> None]
         /\ cur = [c \in Pod |-> None]
         /\ tasks = [o \in Order |-> "none"]
         /\ created = [o \in Order |-> 0]
         /\ faults = 0
         /\ failed = {}

Fault == faults < MaxFaults /\ faults' = faults + 1
Idle(c) == cur' = [cur EXCEPT ![c] = None]
Record(c) == log[cur[c].part][cur[c].off + 1]

(* order-svc publishes an order under its id, perhaps twice by a retry. *)
Announce(p, e) == /\ Len(log[p]) < MaxLog
                  /\ e # Junk => p = PartitionOf[e]
                  /\ log' = [log EXCEPT ![p] = Append(@, e)]
                  /\ UNCHANGED <<stored, pos, base, owner, cur, taskVars, faults, failed>>

AssignBug(c, p) == /\ cur[c] = None /\ owner[p] = None   \* no reset policy
                   /\ owner' = [owner EXCEPT ![p] = c]
                   /\ pos' = [pos EXCEPT ![p] = stored[p]]
                   /\ UNCHANGED <<log, stored, base, cur, taskVars, faults, failed>>

AssignEndBug(c, p) == /\ cur[c] = None      \* every session begins at the end
                      /\ owner[p] = None
                      /\ owner' = [owner EXCEPT ![p] = c]
                      /\ pos' = [pos EXCEPT ![p] = Len(log[p])]
                      /\ base' = [base EXCEPT ![p] = Len(log[p])]
                      /\ UNCHANGED <<log, stored, cur, taskVars, faults, failed>>

(* A rebalance gives a partition to a pod that is polling. *)
Assign(c, p) == /\ cur[c] = None
                /\ owner[p] # c
                /\ IF owner[p] = None THEN UNCHANGED faults ELSE Fault
                /\ owner' = [owner EXCEPT ![p] = c]
                /\ IF stored[p] = NoOffset
                   THEN /\ pos' = [pos EXCEPT ![p] = Len(log[p])]
                        /\ base' = [base EXCEPT ![p] = Len(log[p])]
                   ELSE /\ pos' = [pos EXCEPT ![p] = stored[p]]
                        /\ UNCHANGED base
                /\ UNCHANGED <<log, stored, cur, taskVars, failed>>

ConsumeBug(c, p) ==   \* the offset is stored as soon as the record is read
  /\ cur[c] = None /\ owner[p] = c /\ pos[p] < Len(log[p])
  /\ cur' = [cur EXCEPT ![c] = [part |-> p, off |-> pos[p],
               next |-> IF log[p][pos[p] + 1] = Junk THEN "commit" ELSE "insert"]]
  /\ pos' = [pos EXCEPT ![p] = @ + 1]
  /\ stored' = [stored EXCEPT ![p] = pos[p] + 1]
  /\ UNCHANGED <<log, base, owner, taskVars, faults, failed>>

(* Consume, and the parsing half of HandleMessageAsync: what it cannot use it *)
(* returns from without a task, and the record is committed like any other.   *)
Consume(c, p) ==
  /\ cur[c] = None
  /\ owner[p] = c
  /\ pos[p] < Len(log[p])
  /\ cur' = [cur EXCEPT ![c] = [part |-> p, off |-> pos[p],
               next |-> IF log[p][pos[p] + 1] = Junk THEN "commit" ELSE "insert"]]
  /\ pos' = [pos EXCEPT ![p] = @ + 1]
  /\ UNCHANGED <<log, stored, base, owner, taskVars, faults, failed>>

EnsureDeliveryTaskBug(c) ==   \* an upsert
  /\ cur[c] # None /\ cur[c].next = "insert"
  /\ tasks' = [tasks EXCEPT ![Record(c)] = "todo"]
  /\ created' = [created EXCEPT ![Record(c)] = IF @ = 0 THEN 1 ELSE @]
  /\ cur' = [cur EXCEPT ![c].next = "commit"]
  /\ UNCHANGED <<logVars, faults, failed>>

(* EnsureDeliveryTaskFromOrderAsync: an insert; a primary-key violation (23505) *)
(* is an answer like any other.                                                 *)
EnsureDeliveryTask(c) ==
  /\ cur[c] # None
  /\ cur[c].next = "insert"
  /\ IF tasks[Record(c)] = "none"
     THEN /\ tasks' = [tasks EXCEPT ![Record(c)] = "todo"]
          /\ created' = [created EXCEPT ![Record(c)] = IF @ = 2 THEN 2 ELSE @ + 1]
     ELSE UNCHANGED taskVars
  /\ cur' = [cur EXCEPT ![c].next = "commit"]
  /\ UNCHANGED <<logVars, faults, failed>>

(* Commit(cr); the broker refuses it from a pod that lost the partition. *)
Commit(c) == /\ cur[c] # None
             /\ cur[c].next = "commit"
             /\ IF owner[cur[c].part] = c
                THEN stored' = [stored EXCEPT ![cur[c].part] = cur[c].off + 1]
                ELSE UNCHANGED stored
             /\ Idle(c)
             /\ UNCHANGED <<log, pos, base, owner, taskVars, faults, failed>>

(* The insert or the commit throws.  Nothing is stored, the loop goes on with *)
(* the next record: nobody seeks back.                                        *)
HandlingFails(c) == /\ cur[c] # None
                    /\ Fault
                    /\ failed' = IF cur[c].next = "insert"
                                 THEN failed \cup {[part |-> cur[c].part, off |-> cur[c].off]}
                                 ELSE failed
                    /\ Idle(c)
                    /\ UNCHANGED <<logVars, taskVars>>

(* The process stops between two steps, or is stopped: Close stores nothing.  *)
PodStops(c) == /\ Fault
               /\ Idle(c)
               /\ owner' = [p \in Partition |-> IF owner[p] = c THEN None ELSE owner[p]]
               /\ UNCHANGED <<log, stored, pos, base, taskVars, failed>>

(* PUT and DELETE /api/tasks/{id}. *)
Edit(o) == /\ tasks[o] # "none"
           /\ tasks' = [tasks EXCEPT ![o] = "edited"]
           /\ UNCHANGED <<logVars, cur, created, faults, failed>>

Delete(o) == /\ tasks[o] # "none"
             /\ tasks' = [tasks EXCEPT ![o] = "none"]
             /\ UNCHANGED <<logVars, cur, created, faults, failed>>

Handle(c) == \/ EnsureDeliveryTask(c) \/ Commit(c)
             \/ \E p \in Partition : Consume(c, p)

CNext == \/ \E p \in Partition, e \in Order \cup {Junk} : Announce(p, e)
         \/ \E c \in Pod : \/ Handle(c) \/ HandlingFails(c) \/ PodStops(c)
                           \/ \E p \in Partition : Assign(c, p)
         \/ \E o \in Order : Edit(o) \/ Delete(o)

CSpec == CInit /\ [][CNext]_cvars

(* The consumer loop runs and the group gives a free partition to some pod. *)
FairCSpec == /\ CSpec
             /\ \A c \in Pod : WF_cvars(EnsureDeliveryTask(c) \/ Commit(c))
             /\ \A p \in Partition : /\ SF_cvars(\E c \in Pod : Consume(c, p))
                                     /\ WF_cvars(owner[p] = None /\ \E c \in Pod : Assign(c, p))

-------------------------------------------------------------------------------
CTypeOK == /\ log \in [Partition -> Seq(Order \cup {Junk})]
           /\ stored \in [Partition -> Nat \cup {NoOffset}]
           /\ pos \in [Partition -> Nat]
           /\ base \in [Partition -> Nat]
           /\ owner \in [Partition -> Pod \cup {None}]
           /\ cur \in [Pod -> Working \cup {None}]
           /\ tasks \in [Order -> {"none", "todo", "edited"}]
           /\ created \in [Order -> 0..2]
           /\ faults \in 0..MaxFaults
           /\ failed \subseteq [part : Partition, off : Nat]

Delivered(p, n) == \/ log[p][n] = Junk
                   \/ created[log[p][n]] > 0
                   \/ [part |-> p, off |-> n - 1] \in failed

Busy(p, n) == \E c \in Pod : cur[c] # None /\ cur[c].part = p /\ cur[c].off = n - 1

(* The group moves past an order only with its delivery task: what lies below   *)
(* the stored offset was inserted, or its handling has thrown; what lies below  *)
(* the read position may also be in some pod's hands.  Rebalances in the middle *)
(* of a record and deaths between the insert and the commit lose nothing.       *)
OffsetsFollowTasks ==
  \A p \in Partition : \A n \in base[p] + 1 .. Len(log[p]) :
    /\ stored[p] # NoOffset /\ n <= stored[p] => Delivered(p, n)
    /\ owner[p] # None /\ n <= pos[p] => Delivered(p, n) \/ Busy(p, n)

(* A record handled again, by this pod or another, never undoes what a user has *)
(* done to the task: an edited task stays as edited until a user deletes it.    *)
EditsSurviveRedelivery ==
  [][\A o \in Order : tasks[o] = "edited" => tasks'[o] # "todo"]_cvars

(* An order announced where the group will read gets its delivery task, unless  *)
(* its handling throws.                                                         *)
EveryOrderIsDelivered ==
  \A p \in Partition : \A n \in 1..MaxLog :
    (n <= Len(log[p]) /\ stored[p] # NoOffset /\ n > stored[p]) ~> (n <= Len(log[p]) /\ Delivered(p, n))

(* The comment at lines 94-95: a record that failed is not committed, so the    *)
(* partition retries it; no stored offset ever lies beyond an order without a   *)
(* task.                                                                        *)
PartitionWillRetry ==
  \A p \in Partition : \A n \in base[p] + 1 .. Len(log[p]) :
    stored[p] # NoOffset /\ n <= stored[p] /\ log[p][n] # Junk => created[log[p][n]] > 0
================================================================================
