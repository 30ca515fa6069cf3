------------------------------- MODULE TaskBoard -------------------------------
(***************************************************************************)
(* The task page of one browser tab: its list with filters and pager, its  *)
(* two modals and its delete, over the gateway's task resolvers.  Of the   *)
(* table only the ids matter, and of the filters only which list request   *)
(* they make: which rows such a request matches is left open.              *)
(***************************************************************************)
EXTENDS Naturals

CONSTANTS Id,      \* tasks
          Query,   \* variables of the list request
          None

VARIABLES state,     \* of each id: "unused", then "row", then "deleted", and "gone" once
                     \*   the tab has been told of its own deletion
          filters,   \* variables on screen
          watched,   \* variables of Apollo's observable, whose answer the page shows
          shown,     \* variables that the list on screen answers
          items,     \* the tasks on it
          page,      \* "list", "loading" (the spinner) or "error"
          fetching,  \* the list request in progress: "none", "sent" or "read"
          result,    \* what task-svc has read for it
          creating,  \* filters under which a create in progress began, None without
          updating,  \* an update in progress: its task, the task whose fields it
                     \*   sends, and the filters
          deleting,  \* a delete in progress: its task, the filters, whether it is done
          newOpen,   \* the modal for a new task is open
          editing,   \* task of the open edit modal, None when closed
          form,      \* task whose fields the edit form holds
          strayed,   \* history: a refetch has left the filters on screen
          since,     \* history: tasks gone since the request in progress was sent
          late       \* history: the same, of the request that the list answers

server == <<state, result>>
mutations == <<creating, updating, deleting>>
modals == <<newOpen, editing>>
lists == <<filters, watched, shown, items, page, fetching, strayed>>
history == <<since, late>>
vars == <<server, mutations, modals, form, lists, history>>

Init == /\ state = [i \in Id |-> "unused"]
        /\ filters \in Query
        /\ watched = filters
        /\ shown = filters
        /\ items = {}
        /\ page = "loading"
        /\ fetching = "sent"
        /\ result = {}
        /\ creating = None
        /\ updating = None
        /\ deleting = None
        /\ newOpen = FALSE
        /\ editing = None
        /\ form = None
        /\ strayed = FALSE
        /\ since = {}
        /\ late = {}

-------------------------------------------------------------------------------
(* TaskModal's state: gone with the list, initial when that comes back, and     *)
(* reset by the effect at every render of an open modal that submits nothing.   *)
Render == form' = IF page' # "list" THEN None
                  ELSE IF page # "list" \/ (editing' # None /\ updating' = None) THEN editing'
                  ELSE form

(* An open modal makes the rest of the page inert. *)
ClickableBug == page = "list"       \* show() instead of showModal()

Clickable == page = "list" /\ ~newOpen /\ editing = None

(* Apollo joins a request to one in progress with the same variables, and       *)
(* cancels one with others.  S: tasks that have gone just now.                  *)
Fetch(q, S) == /\ watched' = q
               /\ IF q = watched /\ fetching # "none"
                  THEN since' = since \cup S /\ UNCHANGED <<fetching, result>>
                  ELSE fetching' = "sent" /\ result' = {} /\ since' = {}

(* refetch(variables) of a render under filters q.  With cached data under q   *)
(* the page may show them or the spinner meanwhile.                             *)
Refetch(q, S) == /\ Fetch(q, S)
                 /\ page' \in {page, "loading"}
                 /\ strayed' = (strayed \/ q # filters)
                 /\ UNCHANGED <<filters, shown, items, late>>

-------------------------------------------------------------------------------
(* A filter, the page size, Prev, Next or Reset. *)
FilterStaysBug(q) == /\ Clickable
                     /\ filters' = q         \* not among the memo's dependencies
                     /\ strayed' = FALSE
                     /\ UNCHANGED <<server, mutations, modals, form, watched, shown, items,
                                    page, fetching, history>>

Filter(q) == /\ Clickable
             /\ q # filters
             /\ filters' = q
             /\ Fetch(q, {})
             /\ page' = "loading"
             /\ strayed' = FALSE
             /\ UNCHANGED <<state, mutations, modals, shown, items, late>>
             /\ Render

(* ListAsync *)
List == /\ fetching = "sent"
        /\ fetching' = "read"
        /\ result' \in SUBSET {i \in Id : state[i] = "row"}
        /\ UNCHANGED <<state, mutations, modals, form, filters, watched, shown, items,
                       page, strayed, history>>

Listed == /\ fetching = "read"
          /\ fetching' = "none"
          /\ result' = {}
          /\ since' = {}
          /\ page' = "list"
          /\ shown' = watched
          /\ items' = result
          /\ late' = since
          /\ UNCHANGED <<state, mutations, modals, filters, watched, strayed>>
          /\ Render

ListFails == /\ fetching # "none"
             /\ fetching' = "none"
             /\ result' = {}
             /\ since' = {}
             /\ page' = "error"
             /\ UNCHANGED <<state, mutations, modals, filters, watched, shown, items,
                            strayed, late>>
             /\ Render

(* New task, Edit; x, ESC and the backdrop close a modal even while it submits. *)
OpenNew == /\ Clickable
           /\ newOpen' = TRUE
           /\ UNCHANGED <<server, mutations, editing, lists, history>>
           /\ Render

Edit(i) == /\ Clickable
           /\ i \in items
           /\ editing' = i
           /\ UNCHANGED <<server, mutations, newOpen, lists, history>>
           /\ Render

Close == /\ page = "list"
         /\ newOpen \/ editing # None
         /\ newOpen' = FALSE
         /\ editing' = None
         /\ UNCHANGED <<server, mutations, lists, history>>
         /\ Render

-------------------------------------------------------------------------------
(* The Save of a new task, of an edited one (disabled while one is saved), and *)
(* a confirmed Delete (disabled while one is deleted).                          *)
SaveNew == /\ page = "list" /\ newOpen
           /\ creating = None
           /\ creating' = filters
           /\ UNCHANGED <<server, updating, deleting, modals, lists, history>>
           /\ Render

SaveTwiceBug == /\ page = "list" /\ editing # None     \* Save is never disabled
                /\ updating' = [id |-> editing, form |-> form, under |-> filters]
                /\ UNCHANGED <<server, creating, deleting, modals, lists, history>>
                /\ Render

SaveEdit == /\ page = "list" /\ editing # None
            /\ updating = None
            /\ updating' = [id |-> editing, form |-> form, under |-> filters]
            /\ UNCHANGED <<server, creating, deleting, modals, lists, history>>
            /\ Render

Delete(i) == /\ Clickable
             /\ i \in items
             /\ deleting = None
             /\ deleting' = [id |-> i, under |-> filters, done |-> FALSE]
             /\ UNCHANGED <<server, creating, updating, modals, lists, history>>
             /\ Render

(* task-svc inserts the row of a create, of another user or of an order.  Ids are *)
(* never used again.                                                              *)
Insert(i) == /\ state[i] = "unused"
             /\ state' = [state EXCEPT ![i] = "row"]
             /\ UNCHANGED <<result, mutations, modals, form, lists, history>>

Remove == /\ deleting # None /\ ~deleting.done
          /\ state[deleting.id] = "row"
          /\ state' = [state EXCEPT ![deleting.id] = "deleted"]
          /\ deleting' = [deleting EXCEPT !.done = TRUE]
          /\ UNCHANGED <<result, creating, updating, modals, form, lists, history>>

(* Another user's delete, or one of the tab that was answered with an error. *)
RemoveOther(i) == /\ state[i] = "row"
                  /\ state' = [state EXCEPT ![i] = "deleted"]
                  /\ UNCHANGED <<result, mutations, modals, form, lists, history>>

(* The answers: the handlers go on after their await. *)
Created == /\ creating # None
           /\ creating' = None
           /\ newOpen' = FALSE
           /\ Refetch(creating, {})
           /\ UNCHANGED <<state, updating, deleting, editing>>
           /\ Render

Updated == /\ updating # None
           /\ updating' = None
           /\ editing' = None
           /\ Refetch(updating.under, {})
           /\ UNCHANGED <<state, creating, deleting, newOpen>>
           /\ Render

DeletedNoRefetchBug == /\ deleting # None /\ deleting.done
                       /\ deleting' = None
                       /\ state' = [state EXCEPT ![deleting.id] = "gone"]
                       /\ UNCHANGED <<result, creating, updating, modals, lists, history>>
                       /\ Render

Deleted == /\ deleting # None /\ deleting.done
           /\ deleting' = None
           /\ state' = [state EXCEPT ![deleting.id] = "gone"]
           /\ Refetch(deleting.under, {deleting.id})
           /\ UNCHANGED <<creating, updating, modals>>
           /\ Render

(* A refusal (401, 429, 400, 404), an error, or no answer to what was done.  The *)
(* gateway throws at a save, whose modal stays; a failed delete is false.         *)
CreateFails == /\ creating # None
               /\ creating' = None
               /\ UNCHANGED <<server, updating, deleting, modals, lists, history>>
               /\ Render

UpdateFails == /\ updating # None
               /\ updating' = None
               /\ UNCHANGED <<server, creating, deleting, modals, lists, history>>
               /\ Render

DeleteFails == /\ deleting # None
               /\ deleting' = None
               /\ UNCHANGED <<server, creating, updating, modals, lists, history>>
               /\ Render

Next == \/ \E q \in Query : Filter(q)
        \/ \E i \in Id : Edit(i) \/ Delete(i) \/ Insert(i) \/ RemoveOther(i)
        \/ List \/ Listed \/ ListFails
        \/ OpenNew \/ Close \/ SaveNew \/ SaveEdit \/ Remove
        \/ Created \/ Updated \/ Deleted
        \/ CreateFails \/ UpdateFails \/ DeleteFails

Spec == Init /\ [][Next]_vars

-------------------------------------------------------------------------------
TypeOK == /\ state \in [Id -> {"unused", "row", "deleted", "gone"}]
          /\ items \subseteq Id
          /\ {filters, watched, shown} \subseteq Query
          /\ page \in {"list", "loading", "error"}
          /\ fetching \in {"none", "sent", "read"}
          /\ result \subseteq Id
          /\ page = "loading" => fetching # "none"
          /\ creating \in Query \cup {None}
          /\ updating \in [id : Id, form : Id, under : Query] \cup {None}
          /\ deleting \in [id : Id, under : Query, done : BOOLEAN] \cup {None}
          /\ newOpen \in BOOLEAN
          /\ {editing, form} \subseteq Id \cup {None}
          /\ ~(newOpen /\ editing # None)
          /\ strayed \in BOOLEAN
          /\ since \subseteq Id
          /\ late \subseteq Id

(* A Save sends the fields of the task whose modal is open, although the modal  *)
(* can be closed and opened for another task while the first is being saved     *)
(* (TasksPage.tsx:331-335 keeps the old fields in the form until then).         *)
SavesItsOwnTask == updating # None => updating.form = updating.id

(* When nothing is being fetched, the list on screen answers the filters on     *)
(* screen, unless a mutation that began under other filters has refetched those *)
(* (the `variables` of TasksPage.tsx:89, 95 and 104 are the ones of the render  *)
(* that was clicked), and shows no task that the tab has deleted, unless it is   *)
(* the answer to a request sent before the deletion was answered, which the      *)
(* refetch then has joined.                                                     *)
ListIsCurrent == page = "list" /\ fetching = "none" =>
                   /\ shown = filters \/ strayed
                   /\ \A i \in items : state[i] = "gone" => i \in late
================================================================================
