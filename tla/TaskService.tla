------------------------------ MODULE TaskService ------------------------------
(***************************************************************************)
(* task-svc: TaskService over its Postgres table and the cache-aside layer *)
(* TaskCache, for concurrent requests on several pods that share one Redis.*)
(* A row is abstracted to its version, a number no other write has had     *)
(* (content and xmin together).                                            *)
(***************************************************************************)
EXTENDS Naturals

CONSTANTS Id,         \* task ids
          Call,       \* requests in progress at a time
          MaxWrites   \* bound: versions

ASSUME BoundsType == MaxWrites \in Nat

VARIABLES row,      \* version of the committed row, Absent without one
          cache,    \* version in the cache entry, Absent without one
          writes,   \* versions handed out so far
          pc,       \* next step of each request
          call,     \* its task id and the version it has read
          answer,   \* status of its last answer
          edits,    \* history: [of, to], an UPDATE replaced version of by to
          raced     \* history: tasks whose entry was left behind, and why not (below)

vars == <<row, cache, writes, pc, call, answer, edits, raced>>

Absent == 0
Version == 0..MaxWrites
Status == {"none", "200", "404", "500"}

Init == /\ row = [i \in Id |-> Absent]
        /\ cache = row
        /\ writes = 0
        /\ pc = [c \in Call |-> "idle"]
        /\ call \in [Call -> [id : Id, seen : {Absent}]]
        /\ answer = [c \in Call |-> "none"]
        /\ edits = {}
        /\ raced = {}

-------------------------------------------------------------------------------
Task(c) == call[c].id
Goto(c, l) == pc' = [pc EXCEPT ![c] = l]
Answer(c, s) == Goto(c, "idle") /\ answer' = [answer EXCEPT ![c] = s]
NewVersion == writes < MaxWrites /\ writes' = writes + 1

(* GET goes to the cache, PUT to the row, DELETE deletes at once. *)
Request(c, i) == /\ pc[c] = "idle"
                 /\ \E l \in {"lookup", "load", "delete"} : Goto(c, l)
                 /\ call' = [call EXCEPT ![c] = [id |-> i, seen |-> Absent]]
                 /\ answer' = [answer EXCEPT ![c] = "none"]
                 /\ UNCHANGED <<row, cache, writes, edits, raced>>

(* POST, or the delivery task of an order: a row where none is; no cache entry. *)
Insert(i) == /\ row[i] = Absent
             /\ NewVersion
             /\ row' = [row EXCEPT ![i] = writes']
             /\ UNCHANGED <<cache, pc, call, answer, edits, raced>>

(* GetAsync: a failed cache read is a miss. *)
LookupHit(c) == /\ pc[c] = "lookup"
                /\ cache[Task(c)] # Absent
                /\ Answer(c, "200")
                /\ UNCHANGED <<row, cache, writes, call, edits, raced>>

LookupMiss(c) == /\ pc[c] = "lookup"
                 /\ Goto(c, "read")
                 /\ UNCHANGED <<row, cache, writes, call, answer, edits, raced>>

FetchBug(c, next) ==   \* no null check
  /\ Goto(c, next)
  /\ call' = [call EXCEPT ![c].seen = row[Task(c)]]
  /\ UNCHANGED <<row, cache, writes, answer, edits, raced>>

(* FirstOrDefaultAsync, and the 404 when there is no such row. *)
Fetch(c, next) == /\ IF row[Task(c)] = Absent
                     THEN Answer(c, "404") /\ UNCHANGED call
                     ELSE /\ Goto(c, next)
                          /\ call' = [call EXCEPT ![c].seen = row[Task(c)]]
                          /\ UNCHANGED answer
                  /\ UNCHANGED <<row, cache, writes, edits, raced>>

Read(c) == pc[c] = "read" /\ Fetch(c, "fill")

(* cache.SetAsync; its errors are swallowed. *)
Fill(c) == /\ pc[c] = "fill"
           /\ \/ /\ cache' = [cache EXCEPT ![Task(c)] = call[c].seen]
                 /\ raced' = IF call[c].seen = row[Task(c)] THEN raced \ {Task(c)}
                                                            ELSE raced \cup {Task(c)}
              \/ UNCHANGED <<cache, raced>>
           /\ Answer(c, "200")
           /\ UNCHANGED <<row, writes, call, edits>>

(* UpdateAsync. *)
Load(c) == pc[c] = "load" /\ Fetch(c, "save")

Write(c) == /\ NewVersion
            /\ row' = [row EXCEPT ![Task(c)] = writes']
            /\ edits' = edits \cup {[of |-> call[c].seen, to |-> writes']}

SaveBlindBug(c) == /\ pc[c] = "save"      \* no concurrency token
                   /\ row[Task(c)] # Absent
                   /\ Write(c)
                   /\ Goto(c, "remove")
                   /\ UNCHANGED <<cache, call, answer, raced>>

SaveEarlyBug(c) == /\ pc[c] = "save"      \* invalidates before the write commits
                   /\ row[Task(c)] = call[c].seen
                   /\ Write(c)
                   /\ Answer(c, "200")
                   /\ UNCHANGED <<cache, call, raced>>

(* The UPDATE names the xmin that was read. *)
Save(c) == /\ pc[c] = "save"
           /\ row[Task(c)] = call[c].seen
           /\ Write(c)
           /\ Goto(c, "remove")
           /\ UNCHANGED <<cache, call, answer, raced>>

(* No row matches: DbUpdateConcurrencyException, which nothing catches but the *)
(* exception handler of the pipeline.                                          *)
SaveConflict(c) == /\ pc[c] = "save"
                   /\ row[Task(c)] # call[c].seen
                   /\ Answer(c, "500")
                   /\ UNCHANGED <<row, cache, writes, call, edits, raced>>

(* DeleteAsync; the cache is touched only when a row went. *)
DeleteRow(c) == /\ pc[c] = "delete"
                /\ row' = [row EXCEPT ![Task(c)] = Absent]
                /\ IF row[Task(c)] = Absent THEN Answer(c, "404")
                                            ELSE Goto(c, "remove") /\ UNCHANGED answer
                /\ UNCHANGED <<cache, writes, call, edits, raced>>

(* cache.RemoveAsync; its errors are swallowed, the entry then stays. *)
Remove(c) == /\ pc[c] = "remove"
             /\ \/ /\ cache' = [cache EXCEPT ![Task(c)] = Absent]
                   /\ raced' = raced \ {Task(c)}
                \/ raced' = raced \cup {Task(c)} /\ UNCHANGED cache
             /\ Answer(c, "200")
             /\ UNCHANGED <<row, writes, call, edits>>

(* The client goes away (the token of every await), an error, a pod that dies.  *)
Cancel(c) == /\ pc[c] # "idle"
             /\ Answer(c, "none")
             /\ raced' = IF pc[c] = "remove" THEN raced \cup {Task(c)} ELSE raced
             /\ UNCHANGED <<row, cache, writes, call, edits>>

(* Five minutes without a read, or an eviction. *)
Expire(i) == /\ cache[i] # Absent
             /\ cache' = [cache EXCEPT ![i] = Absent]
             /\ raced' = raced \ {i}
             /\ UNCHANGED <<row, writes, pc, call, answer, edits>>

Next == \/ \E c \in Call : \/ \E i \in Id : Request(c, i)
                           \/ LookupHit(c) \/ LookupMiss(c) \/ Read(c) \/ Fill(c)
                           \/ Load(c) \/ Save(c) \/ SaveConflict(c)
                           \/ DeleteRow(c) \/ Remove(c) \/ Cancel(c)
        \/ \E i \in Id : Insert(i) \/ Expire(i)

Spec == Init /\ [][Next]_vars

-------------------------------------------------------------------------------
TypeOK == /\ row \in [Id -> Version]
          /\ cache \in [Id -> Version]
          /\ writes \in Version
          /\ pc \in [Call -> {"idle", "lookup", "read", "fill", "load", "save",
                              "delete", "remove"}]
          /\ call \in [Call -> [id : Id, seen : Version]]
          /\ \A c \in Call : pc[c] \in {"fill", "save"} => call[c].seen # Absent
          /\ answer \in [Call -> Status]
          /\ edits \subseteq [of : Version \ {Absent}, to : Version \ {Absent}]
          /\ raced \subseteq Id

(* Two PUTs that read the same state of a task do not both succeed, whatever    *)
(* deletions and re-insertions of the row come between (the xmin of             *)
(* TaskItemConfiguration.cs:43).                                                *)
NoLostUpdate == \A e, f \in edits : e.of = f.of => e = f

Removing(i) == \E c \in Call : pc[c] = "remove" /\ Task(c) = i
Stale(i) == cache[i] \notin {Absent, row[i]}

(* An entry that differs from the row is about to be removed, or was left there *)
(* by one of three events: a GET that read before the write and filled after    *)
(* it, a removal that failed, a request cancelled between its write and its     *)
(* removal.  No other interleaving of the handlers leaves one.                  *)
StaleHasACause == \A i \in Id : Stale(i) => Removing(i) \/ i \in raced

(* TaskItem.cs:28-33: an update that targets a stale row is answered with 409.  *)
ConflictsAreAnswered409 ==
  [][\A c \in Call : SaveConflict(c) /\ row[Task(c)] # Absent => answer'[c] = "409"]_vars
===============================================================================
