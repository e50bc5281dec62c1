---------------------------- MODULE BulkActions ----------------------------
(***************************************************************************)
(* What the write endpoints do to devices and entities (api/devices.py,    *)
(* api/entities.py, api/listing.py) and the client's delete_device and     *)
(* update calls (ha_client/websocket.py), while Home Assistant changes by  *)
(* itself and the caches follow later.                                     *)
(*                                                                         *)
(* One request at a time is worked off (WebSocketClient has the calls of   *)
(* several, and calls that hang).  What a call does to Home Assistant      *)
(* happens when it is answered; what the server knows when it sends it,    *)
(* it knows from the cache.                                                *)
(*                                                                         *)
(* A definition named M_... is a plausible bug in the definition of that   *)
(* name that follows it; PROJECT.json pairs it with the property it must   *)
(* break.                                                                  *)
(***************************************************************************)
EXTENDS Naturals, FiniteSets, SequencesExt

CONSTANTS
  None,
  Device, EntityId,  \* an entity can move from one id to another
  Area, Name, Entry, \* Entry: config entries
  Subs,              \* the patterns: what each makes of a name and of an id
  Homes,             \* what Home Assistant may hold at first
  MaxEdits,          \* bound on the changes others make
  MaxJobs,           \* bound on the requests
  MaxSteps           \* bound on these and the gestures at the page together

Item == Device \cup EntityId

(* What a registry keeps of an item.  uid is the id it had at first.       *)
DeviceRecord == [uid : Item, name : Name, area : Area \cup {None}, entries : SUBSET Entry]

EntityRecord == [uid : Item, name : Name, area : Area \cup {None}, off : BOOLEAN]

ASSUME ItemsAssumption ==
  /\ IsFiniteSet(Device) /\ Device \cap EntityId = {}
  /\ None \notin Item \cup DeviceRecord \cup EntityRecord
  /\ \A h \in Homes :
       /\ DOMAIN h = Item
       /\ \A d \in Device : h[d] \in DeviceRecord \cup {None}
       /\ \A e \in EntityId : h[e] \in EntityRecord \cup {None}
  /\ \A sub \in Subs : sub.id \in [EntityId -> EntityId] /\ sub.name \in [Name -> Name]

VARIABLES
  ha,        \* the registries: a record, or None, for each id
  cache,     \* what the server knows of them
  job,       \* the request being worked off, or Idle
  preview,   \* the last dry run: its pattern and outcomes
  linked,    \* history: entries others linked since the job listed its device's
  clean,     \* history: the preview is of the registries as they are but for its own rename
  edits, jobs, steps

bulkVars == <<ha, cache, job, preview, linked, clean, edits, jobs, steps>>

Step == steps < MaxSteps /\ steps' = steps + 1

Idle == [op |-> None, ids |-> << >>, results |-> << >>]

NoPreview == [sub |-> None, results |-> << >>]

(* The cache is made of the whole registry; it has no use for the config   *)
(* entries.                                                                *)
Seen(h) ==
  [i \in Item |-> IF h[i] = None THEN None
                  ELSE [uid |-> h[i].uid, name |-> h[i].name, area |-> h[i].area]]

BulkInit ==
  /\ ha \in Homes
  /\ cache = Seen(ha)
  /\ job = Idle
  /\ preview = NoPreview
  /\ linked = {} /\ clean = FALSE
  /\ edits = 0 /\ jobs = 0 /\ steps = 0

---------------------------------------------------------------------------
(***************************************************************************)
(* Home Assistant and its other users.                                     *)
(***************************************************************************)

(* A device goes with its last config entry. *)
Linked(h, d, entries) ==
  [h EXCEPT ![d] = IF entries = {} THEN None ELSE [@ EXCEPT !.entries = entries]]

Updated(h, id, changes) ==
  LET new == [f \in DOMAIN h[id] |-> IF f \in DOMAIN changes THEN changes[f] ELSE h[id][f]]
      to  == IF "id" \in DOMAIN changes THEN changes.id ELSE id
  IN  [h EXCEPT ![id] = None, ![to] = new]

Edited ==
  /\ Step
  /\ edits < MaxEdits
  /\ edits' = edits + 1
  /\ clean' = FALSE
  /\ \/ \E d \in Device, c \in Entry :
          /\ ha[d] # None
          /\ \/ /\ c \notin ha[d].entries
                /\ ha' = Linked(ha, d, ha[d].entries \cup {c})
                /\ linked' = linked \cup {<<d, c>>}
             \/ /\ c \in ha[d].entries
                /\ ha' = Linked(ha, d, ha[d].entries \ {c})
                /\ UNCHANGED linked
     \/ \E i \in Item :
          /\ ha[i] # None
          /\ \/ \E n \in Name : ha' = Updated(ha, i, [name |-> n])
             \/ \E a \in Area : ha' = Updated(ha, i, [area |-> a])
             \/ i \in EntityId /\ ha' = [ha EXCEPT ![i] = None]
             \/ \E to \in EntityId :
                  i \in EntityId /\ ha[to] = None /\ ha' = Updated(ha, i, [id |-> to])
          /\ UNCHANGED linked
  /\ ha' # ha
  /\ UNCHANGED <<cache, job, preview, jobs>>

(* RegistrySync has the events and tasks behind a refresh. *)
Refreshed ==
  /\ cache # Seen(ha)
  /\ cache' = Seen(ha)
  /\ UNCHANGED <<ha, job, preview, linked, clean, edits, jobs, steps>>

---------------------------------------------------------------------------
(***************************************************************************)
(* A request.  arg is what it asks for: the changes of an update, the      *)
(* pattern of a rename; from is the dialog of the page it comes from.      *)
(***************************************************************************)

Begin(op, ids, arg, dry, from) ==
  /\ job = Idle
  /\ Step
  /\ jobs < MaxJobs
  /\ ids # << >>
  /\ job' = [op |-> op, ids |-> ids, arg |-> arg, dry |-> dry, from |-> from,
             results |-> << >>, sent |-> None, todo |-> {}]
  /\ clean' = IF dry THEN cache = Seen(ha) ELSE clean /\ op = "rename"
  /\ jobs' = jobs + 1
  /\ linked' = {}
  /\ UNCHANGED <<ha, cache, preview, edits>>

NextId == job.ids[Len(job.results) + 1]

Outcome(ok, changes) ==
  [id |-> NextId, ok |-> ok, changes |-> changes,
   uid |-> IF cache[NextId] = None THEN None ELSE cache[NextId].uid]

Settled(outcome) == [job EXCEPT !.results = Append(@, outcome), !.sent = None]

(* What a pattern would change of an item, as the cache has it. *)
Proposed(id, sub) ==
  LET old == [id |-> id, name |-> cache[id].name]
      new == [id |-> IF id \in Device THEN id ELSE sub.id[id], name |-> sub.name[cache[id].name]]
  IN  [f \in {g \in {"id", "name"} : new[g] # old[g]} |-> new[f]]

(* Deletes and renames look the item up in the cache first. *)
Unknown == job.op \in {"delete", "rename"} /\ cache[NextId] = None

(* An entity that a pattern leaves as it is counts as renamed, a device    *)
(* does not.                                                               *)
Decided ==
  IF Unknown THEN {Outcome(FALSE, << >>)}
  ELSE IF job.op # "rename" THEN {}
  ELSE LET changes == Proposed(NextId, job.arg) IN
       IF changes = << >> THEN {Outcome(NextId \in EntityId, changes)}
       ELSE IF job.dry THEN {Outcome(TRUE, changes)} ELSE {}

M_Request == IF job.op = "rename" /\ "id" \in DOMAIN Proposed(NextId, job.arg)
               THEN [call |-> "update", changes |-> [id |-> Proposed(NextId, job.arg).id]]
             ELSE IF job.op = "rename" THEN [call |-> "update", changes |-> Proposed(NextId, job.arg)]
             ELSE IF job.op = "delete" THEN [call |-> IF NextId \in Device THEN "list" ELSE "remove"]
             ELSE [call |-> "update", changes |-> job.arg]
Request ==
  CASE job.op = "delete" -> [call |-> IF NextId \in Device THEN "list" ELSE "remove"]
    [] job.op = "rename" -> [call |-> "update", changes |-> Proposed(NextId, job.arg)]
    [] job.op = "update" -> [call |-> "update", changes |-> job.arg]

Working == job # Idle /\ Len(job.results) < Len(job.ids)

Attempt ==
  /\ Working /\ job.sent = None
  /\ \/ \E outcome \in Decided : job' = Settled(outcome)
     \/ Decided = {} /\ job' = [job EXCEPT !.sent = Request]
  /\ UNCHANGED <<ha, cache, preview, linked, clean, edits, jobs, steps>>

Waiting(call) == Working /\ job.sent # None /\ job.sent.call = call

(* Home Assistant refuses, or the connection is lost before it gets there. *)
M_Refused ==
  /\ Working /\ job.sent # None
  /\ job' = [Settled(Outcome(FALSE, << >>)) EXCEPT !.ids = SubSeq(@, 1, Len(job.results) + 1)]
  /\ UNCHANGED <<ha, cache, preview, linked, clean, edits, jobs, steps>>
Refused ==
  /\ Working /\ job.sent # None
  /\ job' = Settled(Outcome(FALSE, << >>))
  /\ UNCHANGED <<ha, cache, preview, linked, clean, edits, jobs, steps>>

(* delete_device asks for the config entries and removes one after the     *)
(* other.                                                                  *)
Unlink(entries) == {[call |-> "unlink", entry |-> c] : c \in entries}

Listed ==
  /\ Waiting("list")
  /\ \/ /\ ha[NextId] = None
        /\ job' = Settled(Outcome(FALSE, << >>))
     \/ /\ ha[NextId] # None
        /\ \E call \in Unlink(ha[NextId].entries) :
             job' = [job EXCEPT !.todo = ha[NextId].entries, !.sent = call]
  /\ linked' = {}
  /\ UNCHANGED <<ha, cache, preview, clean, edits, jobs, steps>>

M_Unlinked ==
  /\ Waiting("unlink")
  /\ ha[NextId] # None
  /\ ha' = Linked(ha, NextId, ha[NextId].entries \ {job.sent.entry})
  /\ job' = Settled(Outcome(TRUE, << >>))
  /\ UNCHANGED <<cache, preview, linked, clean, edits, jobs, steps>>
Unlinked ==
  /\ Waiting("unlink")
  /\ ha[NextId] # None
  /\ ha' = Linked(ha, NextId, ha[NextId].entries \ {job.sent.entry})
  /\ LET left == job.todo \ {job.sent.entry} IN
     \/ /\ left = {}
        /\ job' = [Settled(Outcome(TRUE, << >>)) EXCEPT !.todo = {}]
     \/ \E call \in Unlink(left) : job' = [job EXCEPT !.todo = left, !.sent = call]
  /\ UNCHANGED <<cache, preview, linked, clean, edits, jobs, steps>>

Removed ==
  /\ Waiting("remove")
  /\ ha[NextId] # None
  /\ ha' = [ha EXCEPT ![NextId] = None]
  /\ job' = Settled(Outcome(TRUE, << >>))
  /\ UNCHANGED <<cache, preview, linked, clean, edits, jobs, steps>>

(* An entity_id that is taken is refused. *)
Changed ==
  /\ Waiting("update")
  /\ ha[NextId] # None
  /\ LET changes == job.sent.changes IN
     /\ "id" \in DOMAIN changes => ha[changes.id] = None
     /\ ha' = Updated(ha, NextId, changes)
     /\ job' = Settled(Outcome(TRUE, changes))
  /\ UNCHANGED <<cache, preview, linked, clean, edits, jobs, steps>>

(* Home Assistant carries it out, but the connection loses its answer.     *)
ReplyLost ==
  /\ Working /\ job.sent # None
  /\ ha[NextId] # None
  /\ \/ /\ job.sent.call = "unlink"
        /\ ha' = Linked(ha, NextId, ha[NextId].entries \ {job.sent.entry})
     \/ /\ job.sent.call = "remove"
        /\ ha' = [ha EXCEPT ![NextId] = None]
     \/ /\ job.sent.call = "update"
        /\ "id" \in DOMAIN job.sent.changes => ha[job.sent.changes.id] = None
        /\ ha' = Updated(ha, NextId, job.sent.changes)
  /\ job' = Settled(Outcome(FALSE, << >>))
  /\ UNCHANGED <<cache, preview, linked, clean, edits, jobs, steps>>

ServerStep == Attempt \/ Refused \/ Listed \/ Unlinked \/ Removed \/ Changed \/ ReplyLost

Answered ==
  /\ job # Idle /\ Len(job.results) = Len(job.ids)
  /\ job' = Idle
  /\ preview' = IF job.op = "rename" /\ job.dry
                  THEN [sub |-> job.arg, results |-> job.results] ELSE preview
  /\ clean' = (clean /\ job.dry)
  /\ UNCHANGED <<ha, cache, linked, edits, jobs, steps>>

(***************************************************************************)
(* The requests for entities, from any client: every bulk endpoint and the *)
(* single ones, which are requests of one.                                 *)
(***************************************************************************)
EntityRequest ==
  \E ids \in {<<i>> : i \in EntityId} \cup {<<i, j>> : i, j \in EntityId} :
    /\ IsInjective(ids)
    /\ \A i \in Range(ids) : cache[i] # None
    /\ \/ Begin("delete", ids, None, FALSE, None)
       \/ \E a \in Area : Begin("update", ids, [area |-> a], FALSE, None)
       \/ \E b \in BOOLEAN : Begin("update", ids, [off |-> b], FALSE, None)
       \/ \E to \in EntityId : Len(ids) = 1 /\ Begin("update", ids, [id |-> to], FALSE, None)
       \/ \E sub \in Subs, dry \in BOOLEAN : Begin("rename", ids, sub, dry, None)

---------------------------------------------------------------------------
(***************************************************************************)
(* Properties.                                                             *)
(***************************************************************************)

(* Every item of a bulk request gets its outcome, in order, whatever       *)
(* became of those before it (api/listing.py, per_item_results).           *)
Promise == INSTANCE Batch WITH
  Id <- Item, asked <- job.ids, outcomes <- [n \in DOMAIN job.results |-> job.results[n].ok]

BatchImplemented == Promise!Spec

(* A device that is reported as deleted is gone, but for config entries    *)
(* that somebody linked after they were listed; one that could not be      *)
(* deleted is left "with only the entries we didn't reach"                 *)
(* (ha_client/websocket.py, delete_device).                                *)
DeleteOutcome ==
  [][(/\ job.op = "delete" /\ Working /\ NextId \in Device
      /\ Len(job'.results) > Len(job.results) /\ job.sent # None /\ job.sent.call = "unlink")
     => LET d    == NextId
            left == IF ha'[d] = None THEN {} ELSE ha'[d].entries
            missed == IF Last(job'.results).ok THEN {} ELSE job.todo
        IN  left \subseteq missed \cup {c \in Entry : <<d, c>> \in linked}]_bulkVars

(* Renaming gives every item what its dry run showed, and to no other      *)
(* item - as long as nobody else changes anything - however far the cache  *)
(* has followed in the middle (api/entities.py, rename_pattern_entities).  *)
PreviewKept ==
  (job.op = "rename" /\ ~job.dry /\ clean /\ preview.sub = job.arg) =>
    \A o \in Range(job.results) : \A p \in Range(preview.results) :
      (o.id = p.id /\ o.ok) =>
        LET at == IF "id" \in DOMAIN p.changes THEN p.changes.id ELSE p.id IN
        /\ ha[at] # None /\ ha[at].uid = p.uid
        /\ "name" \in DOMAIN p.changes => ha[at].name = p.changes.name
=============================================================================
