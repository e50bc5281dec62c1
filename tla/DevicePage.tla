---------------------------- MODULE DevicePage ----------------------------
(***************************************************************************)
(* The device page of one browser tab (pages/Devices, hooks/useActions.ts, *)
(* hooks/useDevices.ts): its filter, the rows it shows, the selection, the *)
(* drawer with its draft and the dialogs, while the requests they start    *)
(* are worked off (BulkActions) and the list is refetched underneath.      *)
(*                                                                         *)
(* The filter is a room or None; search, sorting and pages drop rows as a  *)
(* room does.  A refetch, its retries included, is one step (LiveUpdates   *)
(* has those in flight); it may fail, and notices may be lost.  A notice,  *)
(* a refetch or an answer takes the effects of React with it.              *)
(***************************************************************************)
EXTENDS BulkActions

CONSTANTS
  Trim,        \* what is left of a name without the space around it
  Blank,       \* the empty name
  MaxFailures  \* bound on the refetches that fail

ASSUME TrimAssumption ==
  /\ Trim \in [Name -> Name]
  /\ \A n \in Name : Trim[Trim[n]] = Trim[n]

VARIABLE tab

vars == <<bulkVars, tab>>

Filter == {None} \cup Area

(* The rows of a room, by id: what the drawer edits of each. *)
ListDevices(room) ==
  [d \in {x \in Device : cache[x] # None /\ room \in {None, cache[x].area}} |->
     [name |-> cache[d].name, area |-> cache[d].area]]

(* The drawer's draft is taken from the row it is mounted on.  seed and    *)
(* touched are history: that row, and the fields the user has changed.     *)
Closed == [id |-> None, draft |-> << >>, seed |-> << >>, touched |-> {}]

M_OpenedOn(d, rows) ==
  [id |-> d, draft |-> [rows[d] EXCEPT !.area = None], seed |-> rows[d], touched |-> {}]
OpenedOn(d, rows) == [id |-> d, draft |-> rows[d], seed |-> rows[d], touched |-> {}]

(* The page starts with the whole list, and a drawer if its URL names a    *)
(* device.  shown is the data on screen, pages the answers kept for each   *)
(* filter.  While failed an alert is in place of table and drawer; mounts  *)
(* counts the alerts.  missed is history: a notice was lost and nothing    *)
(* fetched since.  Nobody opens the page in a home without devices.        *)
Init ==
  /\ BulkInit
  /\ \E drawer \in {Closed} \cup {OpenedOn(d, ListDevices(None)) : d \in DOMAIN ListDevices(None)} :
       tab = [open |-> ListDevices(None) # << >>, filter |-> None,
              pages |-> [f \in Filter |-> IF f = None THEN ListDevices(f) ELSE None],
              shown |-> ListDevices(None), stale |-> FALSE,
              failed |-> FALSE, mounts |-> 0, missed |-> FALSE,
              selection |-> {}, drawer |-> drawer, dialog |-> None]

(* The effects of DevicesPage: the selection and the drawer follow what is *)
(* on screen.                                                              *)
M_Effects(t) == [t EXCEPT !.drawer = IF @.id \in DOMAIN t.shown THEN @ ELSE Closed]
Effects(t) ==
  [t EXCEPT !.selection = @ \cap DOMAIN t.shown,
            !.drawer = IF @.id \in DOMAIN t.shown THEN @ ELSE Closed]

(* Until a filter has an answer the rows of the one before stay.  Changing *)
(* the filter drops the drawer from the URL.                               *)
Filtered(t, f) ==
  Effects([t EXCEPT !.filter = f, !.stale = TRUE, !.failed = FALSE, !.drawer = Closed,
                    !.shown = IF t.pages[f] = None THEN @ ELSE t.pages[f]])

(* The alert takes the drawer with it and the draft with the drawer; the   *)
(* URL keeps the device, and the drawer is mounted anew with the table.    *)
Unmounted(t) ==
  [t EXCEPT !.failed = TRUE, !.mounts = @ + 1, !.stale = FALSE,
            !.drawer = [Closed EXCEPT !.id = t.drawer.id]]

Mounted(t) ==
  IF t.failed
    THEN [t EXCEPT !.failed = FALSE,
                   !.drawer = IF @.id \in DOMAIN t.shown THEN OpenedOn(@.id, t.shown) ELSE Closed]
    ELSE t

(* While a list that has never had an answer is fetched again, the rows of *)
(* the one before are back; one that has keeps its alert until it succeeds.*)
Invalidated(t) ==
  IF ~t.open THEN t
  ELSE [(IF t.pages[t.filter] = None THEN Mounted(t) ELSE t) EXCEPT !.stale = TRUE]

(* A notice is lost while the stream reconnects, and none is sent when a   *)
(* resync fails in its second half.                                        *)
M_Refresh == Refreshed /\ UNCHANGED tab
Refresh ==
  /\ Refreshed
  /\ \/ tab' = Invalidated(tab)
     \/ tab.open /\ tab' = [tab EXCEPT !.missed = TRUE]

(* The browser is online again, and refetches. *)
Online ==
  /\ tab.open /\ ~tab.stale
  /\ tab' = Invalidated(tab)
  /\ UNCHANGED bulkVars

Arrived(rows) ==
  [tab EXCEPT !.pages[tab.filter] = rows, !.shown = rows, !.stale = FALSE, !.missed = FALSE]

M_Fetch ==
  /\ tab.open /\ tab.stale
  /\ LET rows == ListDevices(tab.filter)
         t    == Effects(Mounted(Arrived(rows))) IN
     tab' = IF t.drawer.id = None THEN t ELSE [t EXCEPT !.drawer.draft = rows[t.drawer.id]]
  /\ UNCHANGED bulkVars
Fetch ==
  /\ tab.open /\ tab.stale
  /\ tab' = Effects(Mounted(Arrived(ListDevices(tab.filter))))
  /\ UNCHANGED bulkVars

FetchFails ==
  /\ tab.open /\ tab.stale
  /\ tab.mounts < MaxFailures
  /\ tab' = Unmounted(tab)
  /\ UNCHANGED bulkVars

---------------------------------------------------------------------------
(***************************************************************************)
(* The user.  The drawer covers the table, and a dialog covers both and    *)
(* outlives them.                                                          *)
(***************************************************************************)

Gesture ==
  Step /\ UNCHANGED <<ha, cache, job, preview, linked, clean, edits, jobs>>

Closing == UNCHANGED bulkVars

AtTable == tab.open /\ ~tab.failed /\ tab.drawer.id = None /\ tab.dialog = None

InDrawer == ~tab.failed /\ tab.drawer.id # None /\ tab.dialog = None

InDialog(op) == tab.dialog # None /\ tab.dialog.op = op

SetFilter ==
  /\ AtTable
  /\ Gesture
  /\ \E f \in Filter \ {tab.filter} : tab' = Filtered(tab, f)

Select ==
  /\ AtTable
  /\ Gesture
  /\ \E d \in DOMAIN tab.shown :
       tab' = [tab EXCEPT !.selection = IF d \in @ THEN @ \ {d} ELSE @ \cup {d}]

Row == tab.shown[tab.drawer.id]

(* A name is trimmed before it is compared with the row's, which is not.   *)
Entered == [tab.drawer.draft EXCEPT !.name = Trim[@]]

Differs(f) == Entered[f] # Row[f]

Dirty == \E f \in DOMAIN Row : Differs(f)

OpenDrawer ==
  /\ AtTable
  /\ Gesture
  /\ \E d \in DOMAIN tab.shown :
       tab' = [tab EXCEPT !.drawer = OpenedOn(d, tab.shown)]

EditDraft ==
  /\ InDrawer
  /\ Gesture
  /\ \/ \E n \in Name : tab' = [tab EXCEPT !.drawer.draft.name = n, !.drawer.touched = @ \cup {"name"}]
     \/ \E a \in Area \cup {None} :
          tab' = [tab EXCEPT !.drawer.draft.area = a, !.drawer.touched = @ \cup {"area"}]
  /\ tab' # tab

(* What is sent is what differs from the row as it is now. *)
Differing == [f \in {g \in DOMAIN Row : Differs(g)} |-> Entered[f]]

Opened(dialog) == tab' = [tab EXCEPT !.dialog = dialog]

(* What a dialog acts on is fixed when it opens, and so is the filter that *)
(* closing the drawer puts back.  about is the pattern, or the name at     *)
(* first; found is whether the preview matched anything.  mount is which   *)
(* mounting of the page it belongs to.                                     *)
Dialog(op, ids, about) ==
  [op |-> op, ids |-> ids, about |-> about, back |-> tab.filter, mount |-> tab.mounts,
   waits |-> FALSE, found |-> FALSE]

Save ==
  /\ InDrawer
  /\ Dirty /\ Entered.name # Blank
  /\ Begin("update", <<tab.drawer.id>>, Differing, FALSE, Dialog("save", << >>, None))
  /\ UNCHANGED tab

RequestClose ==
  /\ InDrawer
  /\ Closing
  /\ \/ Dirty /\ Opened(Dialog("discard", << >>, None))
     \/ ~Dirty /\ tab' = [tab EXCEPT !.drawer = Closed]

DrawerClosed(t, back) ==
  IF back = t.filter THEN [t EXCEPT !.drawer = Closed] ELSE Filtered(t, back)

Discard ==
  /\ InDialog("discard")
  /\ tab' = [DrawerClosed(tab, tab.dialog.back) EXCEPT !.dialog = None]
  /\ Closing

OpenDialog ==
  /\ Gesture
  /\ \/ InDrawer /\ Opened(Dialog("delete in drawer", <<tab.drawer.id>>, None))
     \/ /\ AtTable
        /\ tab.selection # {}
        /\ LET ids == SetToSeq(tab.selection) IN
           \/ \E op \in {"delete", "assign"} : Opened(Dialog(op, ids, None))
           \/ Len(ids) = 1 /\ Opened(Dialog("rename", ids, tab.shown[ids[1]].name))
           \/ \E sub \in Subs : Opened(Dialog("rename pattern", ids, sub))

ChangePattern ==
  /\ Gesture
  /\ InDialog("rename pattern")
  /\ \E sub \in Subs \ {tab.dialog.about} : Opened([tab.dialog EXCEPT !.about = sub])

Cancel == tab.dialog # None /\ Opened(None) /\ Closing

(* A confirmation closes at once, a form when its request is answered. *)
ConfirmDelete ==
  /\ InDialog("delete") \/ InDialog("delete in drawer")
  /\ Begin("delete", tab.dialog.ids, None, FALSE, tab.dialog)
  /\ tab' = [tab EXCEPT !.dialog = None]

(* A pattern is applied once a preview matched something. *)
Submit ==
  \/ /\ InDialog("assign") /\ UNCHANGED tab
     /\ \E a \in Area : Begin("update", tab.dialog.ids, [area |-> a], FALSE, tab.dialog)
  \/ /\ InDialog("rename") /\ UNCHANGED tab
     /\ \E n \in Name \ {tab.dialog.about, Blank} :
          Begin("update", tab.dialog.ids, [name |-> n], FALSE, tab.dialog)
  \/ /\ InDialog("rename pattern") /\ tab.dialog.found /\ UNCHANGED tab
     /\ Begin("rename", tab.dialog.ids, tab.dialog.about, FALSE, tab.dialog)
  \/ /\ InDialog("rename pattern") /\ tab' = [tab EXCEPT !.dialog.waits = TRUE]
     /\ Begin("rename", tab.dialog.ids, tab.dialog.about, TRUE, tab.dialog)

---------------------------------------------------------------------------
(***************************************************************************)
(* What an answer does to the page (useActions.ts, and who asked).         *)
(***************************************************************************)

AnyOk == \E o \in Range(job.results) : o.ok

Matched == \E o \in Range(job.results) : o.changes # << >>

(* React Query drops what a component wants done if it was unmounted.      *)
AskerMounted == job.from.mount = tab.mounts

AfterAnswer(t) ==
  LET op    == job.from.op
      Told(u) == IF AnyOk THEN Invalidated(u) ELSE u IN
  CASE op = "delete"           -> Told(IF AskerMounted THEN [t EXCEPT !.selection = {}] ELSE t)
    [] op = "delete in drawer" ->
         Told(IF AnyOk /\ AskerMounted THEN DrawerClosed(t, job.from.back) ELSE t)
    [] op = "save"             -> Told(t)
    [] op = "rename"           -> IF AnyOk THEN Invalidated([t EXCEPT !.dialog = None]) ELSE t
    [] op = "assign"           -> Invalidated([t EXCEPT !.dialog = None])
    [] op = "rename pattern" /\ ~job.dry -> Invalidated([t EXCEPT !.dialog = None])
    [] op = "rename pattern" /\ job.dry ->
         IF t.dialog # None /\ t.dialog.waits
           THEN [t EXCEPT !.dialog.waits = FALSE, !.dialog.found = Matched] ELSE t

AnswerArrives ==
  /\ Answered
  /\ tab' = IF job.from = None THEN tab ELSE AfterAnswer(tab)

---------------------------------------------------------------------------
Server == ServerStep /\ UNCHANGED tab

Others == (Edited \/ EntityRequest) /\ UNCHANGED tab

User ==
  \/ SetFilter \/ Select \/ OpenDrawer \/ EditDraft \/ Save \/ RequestClose \/ Discard
  \/ OpenDialog \/ ChangePattern \/ Cancel \/ ConfirmDelete \/ Submit

Next == Others \/ Server \/ Refresh \/ Online \/ Fetch \/ FetchFails \/ User \/ AnswerArrives

(* Home Assistant answers every call, or the connection fails it; the      *)
(* browser refetches what is stale, or fails to.  No refresh has to come,  *)
(* no notice to arrive, and nobody has to use the page.                    *)
Spec ==
  /\ Init /\ [][Next]_vars
  /\ WF_vars(Server) /\ WF_vars(AnswerArrives)
  /\ WF_vars(Fetch \/ FetchFails)

---------------------------------------------------------------------------
(***************************************************************************)
(* Properties.                                                             *)
(***************************************************************************)

(* An action never finds rows selected that are not on screen              *)
(* (pages/Devices/DevicesPage.tsx:154), and the drawer shows a row.        *)
NothingOffScreen ==
  /\ tab.selection \subseteq DOMAIN tab.shown
  /\ tab.drawer.id \in DOMAIN tab.shown \cup {None}

(* A save sends a field that the user did not touch only if its row has    *)
(* changed since the drawer was opened, or if it is a name with space      *)
(* around it (pages/Devices/EditDeviceDrawer.tsx).                         *)
UntouchedFieldsKept ==
  [][job = Idle /\ job' # Idle /\ job'.from # None /\ job'.from.op = "save" =>
       \A f \in DOMAIN job'.arg :
         \/ f \in tab.drawer.touched
         \/ Row[f] # tab.drawer.seed[f]
         \/ f = "name" /\ Trim[Row.name] # Row.name]_vars

(* Unsaved edits survive every refetch that succeeds and every answer:     *)
(* they change by the user's hand, and go only when the user confirms it,  *)
(* when their device leaves the table, when a delete started in a drawer   *)
(* succeeds, which closes the drawer that is open, or when a refetch fails *)
(* and an alert takes the place of table and drawer.                       *)
DraftKept ==
  [][tab.drawer.id # None /\ ~tab.failed /\ Dirty =>
       \/ /\ tab'.drawer.id = tab.drawer.id
          /\ tab'.drawer.draft = tab.drawer.draft \/ EditDraft
       \/ tab.dialog # tab'.dialog /\ InDialog("discard")
       \/ tab.drawer.id \notin DOMAIN tab'.shown
       \/ job # Idle /\ job' = Idle /\ job.from # None
            /\ job.from.op = "delete in drawer" /\ AnyOk
       \/ tab'.failed]_vars

(* Again and again nothing that the server knows to be deleted is in the   *)
(* table or selected, whichever kept answers the filters bring back        *)
(* meanwhile - unless its notice was lost, or the list cannot be fetched   *)
(* and there is no table.                                                  *)
DeletedLeavesTable ==
  []<>(\/ tab.missed \/ tab.failed
       \/ \A d \in DOMAIN tab.shown \cup tab.selection : cache[d] # None)
=============================================================================
