----------------------------- MODULE TaskBoardProofs -----------------------------
(***************************************************************************)
(* Proofs about the task page for any number of tasks and filters.  BInv   *)
(* adds to the invariants what the page knows between two renders: whose   *)
(* fields its form holds, which list Apollo watches, and which tasks an    *)
(* answer on its way may still name.                                       *)
(***************************************************************************)
EXTENDS TaskBoard, TLAPS

(* While nothing is being saved, the form holds the fields of the open task. *)
FormIsOpenTask == page = "list" /\ editing # None /\ updating = None => form = editing

(* The watched list is the one of the filters on screen, or has strayed, and  *)
(* it is what a page at rest shows.                                           *)
WatchedIsShown == /\ watched = filters \/ strayed
                  /\ page = "list" /\ fetching = "none" => shown = watched

(* An answer on its way names a task that is gone only if it went since the   *)
(* request was sent.                                                          *)
GoneSince == fetching = "read" => \A i \in result : state[i] = "gone" => i \in since

BInv == TypeOK /\ FormIsOpenTask /\ WatchedIsShown /\ GoneSince
        /\ SavesItsOwnTask /\ ListIsCurrent

USE DEF server, mutations, modals, lists, history

(* The page starts with an empty list that is being fetched. *)
LEMMA InitBInv == Init => BInv
  BY DEF Init, BInv, TypeOK, FormIsOpenTask, WatchedIsShown, GoneSince, SavesItsOwnTask, ListIsCurrent

(* Whatever a render does to the form, an open modal then holds its own task. *)
LEMMA RenderForm ==
  ASSUME TypeOK, Render, editing' \in Id \cup {None}
  PROVE  form' \in Id \cup {None} /\ FormIsOpenTask'
  BY DEF TypeOK, Render, FormIsOpenTask

(* A request that is joined or sent: its answer is still to come. *)
LEMMA FetchStep ==
  ASSUME TypeOK, GoneSince, NEW q \in Query, NEW S \in SUBSET Id, Fetch(q, S),
         state' = [i \in Id |-> IF i \in S THEN "gone" ELSE state[i]]
  PROVE  /\ watched' = q /\ fetching' \in {"sent", "read"}
         /\ result' \subseteq Id /\ since' \subseteq Id /\ GoneSince'
  BY DEF TypeOK, GoneSince, Fetch

(* Another filter: its list is watched and shown next. *)
LEMMA FilterStep == ASSUME BInv, NEW q \in Query, Filter(q) PROVE BInv'
<1> USE DEF BInv, Filter
<1>1. state' = [i \in Id |-> IF i \in {} THEN "gone" ELSE state[i]]
  BY DEF TypeOK
<1>2. /\ watched' = q /\ fetching' \in {"sent", "read"}
      /\ result' \subseteq Id /\ since' \subseteq Id /\ GoneSince'
  BY <1>1, FetchStep
<1>3. form' \in Id \cup {None} /\ FormIsOpenTask'
  BY RenderForm DEF TypeOK
<1>4. TypeOK'
  BY <1>2, <1>3 DEF TypeOK, Clickable
<1>5. WatchedIsShown' /\ SavesItsOwnTask' /\ ListIsCurrent'
  BY <1>2 DEF WatchedIsShown, SavesItsOwnTask, ListIsCurrent
<1> QED BY <1>2, <1>3, <1>4, <1>5

(* An answer refetches the list of the filters under which its mutation began. *)
LEMMA RefetchStep ==
  ASSUME BInv, NEW q \in Query, NEW S \in SUBSET Id, Refetch(q, S), Render,
         state' = [i \in Id |-> IF i \in S THEN "gone" ELSE state[i]],
         creating' \in Query \cup {None},
         updating' \in {updating, None},
         deleting' \in [id : Id, under : Query, done : BOOLEAN] \cup {None},
         newOpen' \in BOOLEAN, newOpen' => newOpen, editing' \in {editing, None}
  PROVE  BInv'
<1> USE DEF BInv, Refetch
<1>1. /\ watched' = q /\ fetching' \in {"sent", "read"}
      /\ result' \subseteq Id /\ since' \subseteq Id /\ GoneSince'
  BY FetchStep
<1>2. form' \in Id \cup {None} /\ FormIsOpenTask'
  BY RenderForm DEF TypeOK
<1>3. TypeOK'
  <2>1. /\ state' \in [Id -> {"unused", "row", "deleted", "gone"}]
        /\ items' \subseteq Id /\ late' \subseteq Id /\ strayed' \in BOOLEAN
        /\ {filters', watched', shown'} \subseteq Query
    BY <1>1 DEF TypeOK
  <2>2. /\ page' \in {"list", "loading", "error"} /\ fetching' # "none"
        /\ updating' \in [id : Id, form : Id, under : Query] \cup {None}
        /\ newOpen' \in BOOLEAN /\ {editing', form'} \subseteq Id \cup {None}
        /\ ~(newOpen' /\ editing' # None)
    BY <1>1, <1>2 DEF TypeOK
  <2> QED BY <1>1, <2>1, <2>2 DEF TypeOK
<1>4. WatchedIsShown' /\ SavesItsOwnTask' /\ ListIsCurrent'
  BY <1>1 DEF WatchedIsShown, SavesItsOwnTask, ListIsCurrent
<1> QED BY <1>1, <1>2, <1>3, <1>4

(* The three answers. *)
LEMMA AnswerStep == ASSUME BInv, Created \/ Updated \/ Deleted PROVE BInv'
<1>1. ASSUME Created PROVE BInv'
  <2>1. creating \in Query /\ Refetch(creating, {}) /\ Render
    BY <1>1 DEF Created, BInv, TypeOK
  <2>2. state' = [i \in Id |-> IF i \in {} THEN "gone" ELSE state[i]]
    BY <1>1 DEF Created, BInv, TypeOK
  <2> QED BY <1>1, <2>1, <2>2, RefetchStep DEF Created, BInv, TypeOK
<1>2. ASSUME Updated PROVE BInv'
  <2>1. updating.under \in Query /\ Refetch(updating.under, {}) /\ Render
    BY <1>2 DEF Updated, BInv, TypeOK
  <2>2. state' = [i \in Id |-> IF i \in {} THEN "gone" ELSE state[i]]
    BY <1>2 DEF Updated, BInv, TypeOK
  <2> QED BY <1>2, <2>1, <2>2, RefetchStep DEF Updated, BInv, TypeOK
<1>3. ASSUME Deleted PROVE BInv'
  <2>1. /\ deleting.under \in Query /\ {deleting.id} \in SUBSET Id
        /\ Refetch(deleting.under, {deleting.id}) /\ Render
    BY <1>3 DEF Deleted, BInv, TypeOK
  <2>2. state' = [i \in Id |-> IF i \in {deleting.id} THEN "gone" ELSE state[i]]
    BY <1>3 DEF Deleted, BInv, TypeOK
  <2> QED BY <1>3, <2>1, <2>2, RefetchStep DEF Deleted, BInv, TypeOK
<1> QED BY <1>1, <1>2, <1>3

(* The list request: rows are read, shown, or not. *)
LEMMA ListStep == ASSUME BInv, List \/ Listed \/ ListFails PROVE BInv'
<1> USE DEF BInv
<1>1. CASE List
  <2>1. GoneSince'
    BY <1>1 DEF List, GoneSince
  <2> QED BY <1>1, <2>1 DEF List, TypeOK, FormIsOpenTask, WatchedIsShown, SavesItsOwnTask, ListIsCurrent
<1>2. CASE Listed
  <2>1. form' \in Id \cup {None} /\ FormIsOpenTask'
    BY <1>2, RenderForm DEF Listed, TypeOK
  <2>2. TypeOK'
    BY <1>2, <2>1 DEF Listed, TypeOK
  <2> QED BY <1>2, <2>1, <2>2 DEF Listed, WatchedIsShown, GoneSince, SavesItsOwnTask, ListIsCurrent
<1>3. CASE ListFails
  <2>1. form' \in Id \cup {None} /\ FormIsOpenTask'
    BY <1>3, RenderForm DEF ListFails, TypeOK
  <2>2. TypeOK'
    BY <1>3, <2>1 DEF ListFails, TypeOK
  <2> QED BY <1>3, <2>1, <2>2 DEF ListFails, WatchedIsShown, GoneSince, SavesItsOwnTask, ListIsCurrent
<1> QED BY <1>1, <1>2, <1>3

(* A click on the page or in a modal, or a refusal, leaves list and rows alone. *)
LEMMA PageStep ==
  ASSUME BInv, Render, UNCHANGED <<server, lists, history>>,
         creating' \in Query \cup {None},
         updating' \in {updating, None} \/ (updating'.form = updating'.id /\ updating' \in [id : Id, form : Id, under : Query]),
         deleting' \in [id : Id, under : Query, done : BOOLEAN] \cup {None},
         newOpen' \in BOOLEAN, editing' \in Id \cup {None}, ~(newOpen' /\ editing' # None)
  PROVE  BInv'
<1> USE DEF BInv
<1>1. form' \in Id \cup {None} /\ FormIsOpenTask'
  BY RenderForm
<1>2. TypeOK'
  BY <1>1 DEF TypeOK
<1>3. WatchedIsShown' /\ GoneSince' /\ SavesItsOwnTask' /\ ListIsCurrent'
  BY DEF WatchedIsShown, GoneSince, SavesItsOwnTask, ListIsCurrent
<1> QED BY <1>1, <1>2, <1>3

(* The server's rows change under a page that hears nothing of it. *)
LEMMA ServerStep ==
  ASSUME BInv, NEW i \in Id, Insert(i) \/ RemoveOther(i) \/ Remove
  PROVE  BInv'
<1> USE DEF BInv
<1>1. /\ UNCHANGED <<result, creating, updating, modals, form, lists, history>>
      /\ \E j \in Id, s \in {"row", "deleted"} :
           state[j] # "gone" /\ state' = [state EXCEPT ![j] = s]
      /\ deleting' \in [id : Id, under : Query, done : BOOLEAN] \cup {None}
  BY DEF Insert, RemoveOther, Remove, TypeOK
<1>2. TypeOK'
  BY <1>1 DEF TypeOK
<1>3. FormIsOpenTask' /\ WatchedIsShown' /\ SavesItsOwnTask'
  BY <1>1 DEF FormIsOpenTask, WatchedIsShown, SavesItsOwnTask
<1>4. GoneSince' /\ ListIsCurrent'
  BY <1>1 DEF GoneSince, ListIsCurrent, TypeOK
<1> QED BY <1>2, <1>3, <1>4

(* Every step keeps the invariant. *)
LEMMA NextBInv == BInv /\ [Next]_vars => BInv'
<1> SUFFICES ASSUME BInv, [Next]_vars PROVE BInv'
  OBVIOUS
<1>1. ASSUME OpenNew \/ Close PROVE BInv'
  BY <1>1, PageStep DEF OpenNew, Close, Clickable, BInv, TypeOK
<1>2. ASSUME NEW i \in Id, Edit(i) PROVE BInv'
  BY <1>2, PageStep DEF Edit, Clickable, BInv, TypeOK
<1>3. ASSUME SaveNew PROVE BInv'
  BY <1>3, PageStep DEF SaveNew, BInv, TypeOK
<1>4. ASSUME SaveEdit PROVE BInv'
  <2>1. editing \in Id /\ form = editing /\ filters \in Query
    BY <1>4 DEF SaveEdit, BInv, TypeOK, FormIsOpenTask
  <2>2. updating'.form = updating'.id /\ updating' \in [id : Id, form : Id, under : Query]
    BY <1>4, <2>1 DEF SaveEdit
  <2> QED BY <1>4, <2>2, PageStep DEF SaveEdit, BInv, TypeOK
<1>5. ASSUME NEW i \in Id, Delete(i) PROVE BInv'
  BY <1>5, PageStep DEF Delete, BInv, TypeOK
<1>6. ASSUME CreateFails \/ UpdateFails \/ DeleteFails PROVE BInv'
  BY <1>6, PageStep DEF CreateFails, UpdateFails, DeleteFails, BInv, TypeOK
<1>7. CASE UNCHANGED vars
  BY <1>7 DEF vars, BInv, TypeOK, FormIsOpenTask, WatchedIsShown, GoneSince, SavesItsOwnTask, ListIsCurrent
<1>8. ASSUME Remove PROVE BInv'
  <2>1. deleting.id \in Id
    BY <1>8 DEF Remove, BInv, TypeOK
  <2> QED BY <1>8, <2>1, ServerStep
<1> QED BY <1>1, <1>2, <1>3, <1>4, <1>5, <1>6, <1>7, <1>8, FilterStep, AnswerStep, ListStep,
          ServerStep DEF Next

(* Type correctness of the page, which is also that a spinner always has a    *)
(* request and that one modal is open at most.                                *)
THEOREM TypeCorrect == Spec => []TypeOK
<1>1. BInv => TypeOK
  BY DEF BInv
<1> QED BY <1>1, InitBInv, NextBInv, PTL DEF Spec

(* However modals are closed and opened while they submit, a save sends the   *)
(* fields of its own task.                                                    *)
THEOREM SavesItsOwnTaskHolds == Spec => []SavesItsOwnTask
<1>1. BInv => SavesItsOwnTask
  BY DEF BInv
<1> QED BY <1>1, InitBInv, NextBInv, PTL DEF Spec

(* A page at rest shows the list its filters ask for, and no deleted task, up *)
(* to the two exceptions the code has.                                        *)
THEOREM ListIsCurrentHolds == Spec => []ListIsCurrent
<1>1. BInv => ListIsCurrent
  BY DEF BInv
<1> QED BY <1>1, InitBInv, NextBInv, PTL DEF Spec
===============================================================================
